---------------------------- MODULE Spec2Model ----------------------------
(***************************************************************************)
(* Butler: the token-authenticated POST /apply handler of src/src/index.ts *)
(* (path gate, branch resolver, batch committer, PR reconciler) running    *)
(* against a model of the remote repository (refs, commits, pull           *)
(* requests).  Every remote call of a request is one atomic step; the      *)
(* synchronous code between two awaits belongs to the step of the earlier  *)
(* await.  Paths and file contents are sequences of one-character strings. *)
(***************************************************************************)
EXTENDS Integers, Sequences, FiniteSets, TLC

(***************************************************************************)
(* Bounds of the model.                                                    *)
(***************************************************************************)
\* longest edit batch a client submits
MaxEdits == 2
\* remote calls of one request that may fail for a reason other than the
\* state of the repository (network, permission, server error)
MaxFaults == 1

None == "none"

(***************************************************************************)
(* Path gate: src/src/lib/allowlist.ts                                     *)
(***************************************************************************)
\* characters the RegExp dot does not match (no s flag): \n \r (and U+2028/9)
LineTerminators == {"\n", "\r"}

RECURSIVE ReplaceBackslashes(_)
ReplaceBackslashes(p) ==
  IF p = <<>> THEN <<>>
  ELSE <<IF Head(p) = "\\" THEN "/" ELSE Head(p)>> \o ReplaceBackslashes(Tail(p))

RECURSIVE StripSlashes(_)
StripSlashes(p) ==
  IF p # <<>> /\ Head(p) = "/" THEN StripSlashes(Tail(p)) ELSE p

\* p.replace(/\\/g, '/').replace(/^\.\/+/, '')
norm(p) ==
  LET q == ReplaceBackslashes(p)
  IN IF Len(q) >= 2 /\ q[1] = "." /\ q[2] = "/"
       THEN StripSlashes(Tail(Tail(q)))
       ELSE q

\* The compiled matcher as a token list: "**" becomes DS (.*), a remaining
\* "*" becomes S ([^/]*), any other character a literal (the globs of
\* SAFE_WRITE_GLOBS hold no character that the escaping step leaves a
\* RegExp operator).
RECURSIVE globToRegExp(_)
globToRegExp(g) ==
  IF g = <<>> THEN <<>>
  ELSE IF Len(g) >= 2 /\ g[1] = "*" /\ g[2] = "*"
         THEN <<[t |-> "DS"]>> \o globToRegExp(Tail(Tail(g)))
  ELSE IF g[1] = "*"
         THEN <<[t |-> "S"]>> \o globToRegExp(Tail(g))
  ELSE <<[t |-> "L", c |-> g[1]]>> \o globToRegExp(Tail(g))

\* new RegExp('^' + g + '$').test(s)
RECURSIVE RegExpTest(_, _)
RegExpTest(re, s) ==
  IF re = <<>> THEN s = <<>>
  ELSE LET h == Head(re)
       IN CASE h.t = "L" ->
                 s # <<>> /\ Head(s) = h.c /\ RegExpTest(Tail(re), Tail(s))
            [] h.t = "S" ->
                 \E k \in 0..Len(s) :
                    /\ \A j \in 1..k : s[j] # "/"
                    /\ RegExpTest(Tail(re), SubSeq(s, k + 1, Len(s)))
            [] h.t = "DS" ->
                 \E k \in 0..Len(s) :
                    /\ \A j \in 1..k : s[j] \notin LineTerminators
                    /\ RegExpTest(Tail(re), SubSeq(s, k + 1, Len(s)))

SAFE_WRITE_GLOBS ==
  << <<"s","r","c","/","*","*">>,
     <<"s","u","p","a","b","a","s","e","/","*","*">>,
     <<"d","o","c","s","/","*","*">>,
     <<"R","E","A","D","M","E",".","m","d">>,
     <<"R","E","A","D","M","E","*",".","m","d">>,
     <<"*",".","m","d">>,
     <<"c","o","n","f","i","g","/","*","*">>,
     <<"p","a","c","k","a","g","e",".","j","s","o","n">>,
     <<"t","s","c","o","n","f","i","g",".","j","s","o","n">>,
     <<".","g","i","t","h","u","b","/","w","o","r","k","f","l","o","w","s","/","*","*">> >>

WorkflowPrefix ==
  <<".","g","i","t","h","u","b","/","w","o","r","k","f","l","o","w","s","/">>

\* n.startsWith('.github/workflows/')
isWorkflowPath(p) ==
  LET n == norm(p)
  IN Len(n) >= Len(WorkflowPrefix) /\ SubSeq(n, 1, Len(WorkflowPrefix)) = WorkflowPrefix

\* SAFE_WRITE_GLOBS.some((g) => globToRegExp(g).test(n))
isPathAllowed(p) ==
  LET n == norm(p)
  IN \E i \in 1..Len(SAFE_WRITE_GLOBS) :
        RegExpTest(globToRegExp(norm(SAFE_WRITE_GLOBS[i])), n)

(***************************************************************************)
(* Values of the model                                                     *)
(***************************************************************************)
Reqs == {"r1", "r2"}

P_src == <<"s","r","c","/","a">>
P_md == <<"N",".","m","d">>
P_etc == <<"e","t","c","/","p">>
\* the directory src, as a path that the glob src/** matches
P_dir == <<"s","r","c","/">>
P_wf == WorkflowPrefix \o <<"c">>
\* src/../.github/workflows/c: the same file, named by way of src
P_up == <<"s","r","c","/",".",".","/">> \o P_wf
\* under .github/workflows/ but matched by no glob: the dot of .* stops at \n
P_wfnl == WorkflowPrefix \o <<"\n">>

\* what a fetch finds at a path that is no file: nothing, or a directory
Absent == <<"#absent">>
Dir == <<"#dir">>
\* a field of the request the handler returned without reading
Unread == "unread"
\* an optional path field that is missing (or the empty string)
NoPath == <<>>

\* ENV.BUTLER_TOKEN (need('BUTLER_TOKEN'): never empty)
BUTLER_TOKEN == "tok"
\* values of the X-Butler-Token header; None: header not sent
TokenHeaders == {None, "", "bad", "tok"}
\* values of the X-Butler-Approve-Workflows header
ApproveHeaders == {None, "", "bad", "wfkey"}

BaseBranch == "main"
Branch == "b1"

\* JavaScript truthiness of an optional header or body string
Truthy(v) == v # None /\ v # ""

(***************************************************************************)
(* Edits a client may put in a batch.  path and from are optional fields   *)
(* of the untyped JSON body, and so are mode, encoding and all ("true" or  *)
(* "false" when the body gives the flag).                                  *)
(***************************************************************************)
Write(path, from, content) ==
  [op |-> "write", path |-> path, from |-> from, content |-> content,
   search |-> <<>>, replace |-> <<>>,
   mode |-> None, encoding |-> None, all |-> None]
Replace(path, search, replace) ==
  [op |-> "replace", path |-> path, from |-> NoPath, content |-> <<>>,
   search |-> search, replace |-> replace,
   mode |-> None, encoding |-> None, all |-> None]

W_src == Write(P_src, NoPath, <<"b">>)
W_md == Write(P_md, NoPath, <<"a">>)
R_eff == Replace(P_src, <<"a">>, <<"b">>)
R_noop == Replace(P_src, <<"c">>, <<"b">>)
R_missing == Replace(P_md, <<"a">>, <<"b">>)
R_dir == Replace(P_dir, <<"a">>, <<"b">>)
W_etc == Write(P_etc, NoPath, <<"b">>)
W_wf == Write(P_wf, NoPath, <<"b">>)
W_wfnl == Write(P_wfnl, NoPath, <<"b">>)
W_up == Write(P_up, NoPath, <<"b">>)
W_from == Write(NoPath, P_src, <<"b">>)
W_nopath == Write(NoPath, NoPath, <<"b">>)
\* a create-mode write of a file main and the branch hold already
W_create == [Write(P_src, NoPath, <<"b">>) EXCEPT !.mode = "create"]
\* a create-mode write of a file neither holds
W_new == [Write(P_md, NoPath, <<"a">>) EXCEPT !.mode = "create"]
\* a write whose content is the base64 text of "a"
W_b64 == [Write(P_md, NoPath, <<"Y", "Q", "=", "=">>) EXCEPT !.encoding = "base64"]
\* R_eff with the all-occurrences flag set, and with the flag false
R_all == [Replace(P_src, <<"a">>, <<"b">>) EXCEPT !.all = "true"]
R_first == [Replace(P_src, <<"a">>, <<"b">>) EXCEPT !.all = "false"]
\* a replace whose replacement contains its search string
R_grow == Replace(P_src, <<"b">>, <<"b", "b">>)

\* the awaits of /apply, and those of its PR reconciler
AllSteps ==
  {"lookup", "ensBase", "ensCreate", "newBase", "newCreate", "getCommit",
   "getContent", "createTree", "createCommit", "updateRef", "listPRs",
   "updatePR", "createPR", "addLabels", "requestReviewers", "createPR2"}
PRSteps ==
  {"listPRs", "updatePR", "createPR", "addLabels", "requestReviewers", "createPR2"}

\* The environment of a run: the edits the clients build their batches from,
\* whether they ask for labels and reviewers, whether remote calls may
\* fail for external reasons and at which awaits, whether the second
\* client waits for the first one's response before it sends its request,
\* whether a remote call may never return, and whether the app was assembled
\* with the per-request timeout middleware.
\* Concurrent clients send well-formed batches to a reliable remote.
CoreLoad ==
  [pool |-> {W_md, R_eff}, cosmetics |-> BOOLEAN, unreliable |-> FALSE,
   faultAt |-> {}, serial |-> FALSE, hangs |-> FALSE, guard |-> FALSE]
\* A single client probes the gate and the committer; the remote is unreliable.
GateLoad ==
  [pool |-> {W_src, R_noop, R_missing, W_md, W_etc, W_wf, W_wfnl, W_from, W_nopath,
             W_create, W_new, W_b64, R_all, R_first, R_dir, W_up},
   cosmetics |-> BOOLEAN, unreliable |-> TRUE, faultAt |-> AllSteps, serial |-> FALSE,
   hangs |-> FALSE, guard |-> FALSE]
\* Two requests one after the other; only the listing of pull requests may fail.
SeqLoad ==
  [pool |-> {W_new, R_eff, R_grow}, cosmetics |-> BOOLEAN, unreliable |-> TRUE,
   faultAt |-> {"listPRs"}, serial |-> TRUE, hangs |-> FALSE, guard |-> FALSE]
\* Concurrent clients with one edit; the calls of the PR reconciler may fail.
PRLoad ==
  [pool |-> {R_eff}, cosmetics |-> BOOLEAN, unreliable |-> TRUE,
   faultAt |-> PRSteps, serial |-> FALSE, hangs |-> FALSE, guard |-> FALSE]
\* The app of index.ts as it is assembled there (no timeout middleware), on
\* a remote whose calls may fail or never return.
LiveLoad ==
  [pool |-> {W_new, R_eff, W_wf}, cosmetics |-> BOOLEAN, unreliable |-> TRUE,
   faultAt |-> AllSteps, serial |-> FALSE, hangs |-> TRUE, guard |-> FALSE]
\* A single client of the schema-validated /apply (newBranch, getFile, upsert).
LegacyLoad ==
  [pool |-> {W_md, W_etc, W_wf, R_eff, R_first, R_missing, W_create, W_src},
   cosmetics |-> {FALSE}, unreliable |-> FALSE, faultAt |-> {}, serial |-> FALSE,
   hangs |-> FALSE, guard |-> FALSE]
\* The assembly adapters/deploy.ts describes: its timeout middleware
\* installed ahead of the routes, /apply kept as it is.
GuardedLoad == [LiveLoad EXCEPT !.guard = TRUE]

Batches(pool) == UNION {[1..n -> pool] : n \in 1..MaxEdits}

(***************************************************************************)
(* File contents                                                           *)
(***************************************************************************)
\* index of the first occurrence of search in cur at or after k, 0 if none
RECURSIVE IndexOf(_, _, _)
IndexOf(cur, search, k) ==
  IF k + Len(search) - 1 > Len(cur) THEN 0
  ELSE IF SubSeq(cur, k, k + Len(search) - 1) = search THEN k
  ELSE IndexOf(cur, search, k + 1)

\* current.replace(search, replace) with a string pattern: the first
\* occurrence only (the contents of the model hold no "$", so the
\* replacement is taken literally)
JsReplace(cur, search, replace) ==
  LET k == IndexOf(cur, search, 1)
  IN IF k = 0 THEN cur
     ELSE SubSeq(cur, 1, k - 1) \o replace \o SubSeq(cur, k + Len(search), Len(cur))

\* before.split(search).join(replace) of the schema-validated /apply: every
\* occurrence, found left to right without overlap (search is not empty)
RECURSIVE SplitJoin(_, _, _)
SplitJoin(before, search, replace) ==
  LET k == IndexOf(before, search, 1)
  IN IF k = 0 THEN before
     ELSE SubSeq(before, 1, k - 1) \o replace
            \o SplitJoin(SubSeq(before, k + Len(search), Len(before)), search, replace)

\* Buffer.from(text, "base64").toString("utf8") of the schema-validated
\* /apply, for text made of whole groups of four characters
B64Alphabet ==
  << "A", "B", "C", "D", "E", "F", "G", "H", "I", "J", "K", "L", "M",
     "N", "O", "P", "Q", "R", "S", "T", "U", "V", "W", "X", "Y", "Z",
     "a", "b", "c", "d", "e", "f", "g", "h", "i", "j", "k", "l", "m",
     "n", "o", "p", "q", "r", "s", "t", "u", "v", "w", "x", "y", "z",
     "0", "1", "2", "3", "4", "5", "6", "7", "8", "9", "+", "/" >>
\* the six bits a character stands for (the padding "=" carries none)
B64Bits(c) ==
  IF c = "=" THEN 0
  ELSE (CHOOSE i \in 1..Len(B64Alphabet) : B64Alphabet[i] = c) - 1
\* the character of a byte, for the letters file contents are made of
Chr(byte) ==
  IF byte \in 97..122 THEN B64Alphabet[byte - 70] ELSE "?"
\* the bytes of one group of four characters
B64Group(g) ==
  LET n == B64Bits(g[1]) * 262144 + B64Bits(g[2]) * 4096
             + B64Bits(g[3]) * 64 + B64Bits(g[4])
      bytes == << n \div 65536, (n \div 256) % 256, n % 256 >>
      kept == IF g[3] = "=" THEN 1 ELSE IF g[4] = "=" THEN 2 ELSE 3
  IN [k \in 1..kept |-> Chr(bytes[k])]
RECURSIVE Base64Decode(_)
Base64Decode(text) ==
  IF Len(text) < 4 THEN <<>>
  ELSE B64Group(SubSeq(text, 1, 4)) \o Base64Decode(SubSeq(text, 5, Len(text)))

\* a tree: the set of its files, each [path, content]
FileAt(tree, path) ==
  IF \E f \in tree : f.path = path
    THEN (CHOOSE f \in tree : f.path = path).content
    ELSE Absent

\* a layering in which the earliest entry for a path is the one kept
RECURSIVE OverlayFirstWins(_, _)
OverlayFirstWins(tree, entries) ==
  IF entries = <<>> THEN tree
  ELSE LET e == entries[Len(entries)]
       IN OverlayFirstWins({f \in tree : f.path # e.path} \cup {e},
                           SubSeq(entries, 1, Len(entries) - 1))

\* createTree's layering: each entry in turn replaces the file at its path
RECURSIVE Overlay(_, _)
Overlay(tree, entries) ==
  IF entries = <<>> THEN tree
  ELSE Overlay({f \in tree : f.path # Head(entries).path} \cup {Head(entries)},
               Tail(entries))

MainTree == {[path |-> P_src, content |-> <<"a","a">>]}
OldBranchTree == {[path |-> P_src, content |-> <<"a","b">>]}

(***************************************************************************)
(* State                                                                   *)
(***************************************************************************)
VARIABLES
  refs,      \* remote: branch name -> SHA of its head commit, 0 if no such ref
  trees,     \* remote: the tree objects; a tree's SHA is its index
  commits,   \* remote: the commit objects; a commit's SHA is its index
  prs,       \* remote: the pull requests; a pull request's number is its index
  workload,  \* the environment of the run, a name that Load resolves
  wfKey,     \* ENV.WORKFLOW_EDIT_KEY
  probe,     \* a pure function applied on its own: its name, argument, result
  pc,        \* per request: the await the handler is suspended at
  inp,       \* per request: headers and body, as far as the handler read them
  loc,       \* per request: the handler's local variables; seen is history:
             \* the head the branch had when the resolver looked it up or tried
             \* to create it, 0 if it had none
  resp,      \* per request: the response sent, status 0 while there is none
  calls,     \* per request: the remote calls it has issued (history)
  faulted,   \* per request: the calls that failed for an external reason (history)
  moved      \* per request: successful ref updates (history)

vars ==
  <<refs, trees, commits, prs, workload, wfKey, probe, pc, inp, loc, resp, calls,
    faulted, moved>>

\* the environment the run was started in
Load ==
  CASE workload = "core" -> CoreLoad
    [] workload = "gate" -> GateLoad
    [] workload = "seq" -> SeqLoad
    [] workload = "pr" -> PRLoad
    [] workload = "live" -> LiveLoad
    [] workload = "guarded" -> GuardedLoad
    [] workload = "legacy" -> LegacyLoad
remote == <<refs, trees, commits, prs>>

MutatingCalls ==
  {"createRef", "createTree", "createCommit", "updateRef",
   "pulls.create", "pulls.update", "addLabels", "requestReviewers",
   "createOrUpdateFileContents"}

\* no pure function is applied on its own in this run
NoProbe == [fn |-> None, arg |-> <<>>, done |-> FALSE, out |-> FALSE]

NoInput ==
  [endpoint |-> Unread, token |-> Unread, branch |-> Unread, prTitle |-> Unread,
   repo |-> Unread, editsKind |-> Unread, edits |-> <<>>, hdr |-> Unread,
   strategy |-> Unread, labels |-> Unread, reviewers |-> Unread]

NoLocals ==
  [headSha |-> 0, baseSha |-> 0, seen |-> 0, baseTree |-> 0, i |-> 0,
   treeEntries |-> <<>>, newTree |-> 0, newSha |-> 0, prNumber |-> 0]

\* the repository before the requests: main alone, or also the branch, one
\* commit ahead of main, with the open pull request an earlier /apply left
InitRemote(withBranch) ==
  /\ trees = IF withBranch THEN <<MainTree, OldBranchTree>> ELSE <<MainTree>>
  /\ commits = IF withBranch
                 THEN << [parents |-> <<>>, tree |-> 1, by |-> "init"],
                         [parents |-> <<1>>, tree |-> 2, by |-> "init"] >>
                 ELSE << [parents |-> <<>>, tree |-> 1, by |-> "init"] >>
  /\ refs = [b \in {BaseBranch, Branch} |->
               IF b = BaseBranch THEN 1 ELSE IF withBranch THEN 2 ELSE 0]
  /\ prs = IF withBranch
             THEN << [head |-> Branch, base |-> BaseBranch, open |-> TRUE, by |-> "init",
                      updatedBy |-> {}, labels |-> FALSE, reviewers |-> FALSE] >>
             ELSE <<>>

InitRequests(active) ==
  /\ pc = [r \in Reqs |-> IF r \in active THEN "idle" ELSE "off"]
  /\ inp = [r \in Reqs |-> NoInput]
  /\ loc = [r \in Reqs |-> NoLocals]
  /\ resp = [r \in Reqs |-> [status |-> 0, error |-> None, commit |-> 0, plan |-> None]]
  /\ calls = [r \in Reqs |-> {}]
  /\ faulted = [r \in Reqs |-> {}]
  /\ moved = [r \in Reqs |-> 0]

\* two clients whose requests interleave, on a reliable remote
Init ==
  /\ \E withBranch \in BOOLEAN : InitRemote(withBranch)
  /\ InitRequests(Reqs)
  /\ workload = "core"
  /\ wfKey = "wfkey"
  /\ probe = NoProbe

(***************************************************************************)
(* Helpers of the handlers                                                 *)
(***************************************************************************)
RECURSIVE SetSum(_, _)
SetSum(f, S) ==
  IF S = {} THEN 0
  ELSE LET q == CHOOSE q \in S : TRUE IN f[q] + SetSum(f, S \ {q})

\* an external failure may still be injected
CanFault ==
  /\ Load.unreliable
  /\ SetSum([q \in Reqs |-> Cardinality(faulted[q])], Reqs) < MaxFaults

Issue(r, call) == calls' = [calls EXCEPT ![r] = @ \cup {call}]
Fault(r) ==
  /\ pc[r] \in Load.faultAt
  /\ faulted' = [faulted EXCEPT ![r] = @ \cup {pc[r]}]

\* the requests a client waits for before it sends r (when clients take turns)
Before(r) == IF Load.serial /\ r = "r2" THEN {"r1"} ELSE {}

\* res.status(status).json({error}) and the handler returns; once the
\* timeout middleware has answered, a later send throws and changes nothing
Respond(r, status, error) ==
  /\ pc' = [pc EXCEPT ![r] = "done"]
  /\ resp' = [resp EXCEPT ![r] =
                IF @.status # 0 THEN @
                ELSE [status |-> status, error |-> error,
                      commit |-> IF status = 200 THEN loc[r].newSha ELSE 0,
                      plan |-> None]]

Goto(r, label) ==
  /\ pc' = [pc EXCEPT ![r] = label]
  /\ UNCHANGED resp

\* requireToken that only asks for the header to be present
requireTokenAnyValue(token) == Truthy(token)

\* requireToken: !token || token !== ENV.BUTLER_TOKEN
requireToken(token) == Truthy(token) /\ token = BUTLER_TOKEN

\* const p = e.path || e.from
GatePath(e) == IF e.path # NoPath THEN e.path ELSE e.from

\* the workflow branch asking only for the header to be present
WorkflowBlockedNoCompare(hdr, key) == ~Truthy(hdr)

\* the workflow branch comparing the header to the secret and no more
WorkflowBlockedCompareOnly(hdr, key) == hdr # key

\* the workflow branch of the validatePathsOrDie that falls back on the
\* body: key = hdr ?? body.workflowKey; !key || key !== ENV.WORKFLOW_EDIT_KEY
WorkflowBlockedBodyKey(hdr, bodyKey, key) ==
  LET k == IF hdr # None THEN hdr ELSE bodyKey
  IN ~Truthy(k) \/ k # key

\* the workflow branch of validatePathsOrDie: !hdr || hdr !== ENV.WORKFLOW_EDIT_KEY
WorkflowBlocked(hdr, key) == ~Truthy(hdr) \/ hdr # key

\* validatePathsOrDie: the first edit that fails decides the response
RECURSIVE validatePathsOrDie(_, _, _)
validatePathsOrDie(hdr, key, edits) ==
  IF edits = <<>> THEN [ok |-> TRUE, status |-> 0, error |-> None]
  ELSE LET p == GatePath(Head(edits))
       IN IF p = NoPath
            THEN [ok |-> FALSE, status |-> 400, error |-> "invalid"]
          ELSE IF ~isPathAllowed(p)
            THEN [ok |-> FALSE, status |-> 400, error |-> "path_not_allowed"]
          ELSE IF isWorkflowPath(p) /\ WorkflowBlocked(hdr, key)
            THEN [ok |-> FALSE, status |-> 403, error |-> "workflow_edit_blocked"]
          ELSE validatePathsOrDie(hdr, key, Tail(edits))

\* the approval header matters only to a batch that holds a workflow path
HeaderChoices(edits) ==
  IF \E k \in 1..Len(edits) :
        GatePath(edits[k]) # NoPath /\ isWorkflowPath(GatePath(edits[k]))
    THEN ApproveHeaders
    ELSE {Unread}

\* the synchronous part of commitBatch's loop: write edits push their entry,
\* the loop stops at the next replace edit (an await) or at the end
RECURSIVE LoopSync(_, _, _)
LoopSync(edits, i, entries) ==
  IF i > Len(edits) THEN [i |-> i, entries |-> entries]
  ELSE IF edits[i].op = "write"
    THEN LoopSync(edits, i + 1,
                  Append(entries, [path |-> edits[i].path, content |-> edits[i].content]))
  ELSE IF edits[i].op = "replace" THEN [i |-> i, entries |-> entries]
  ELSE LoopSync(edits, i + 1, entries)

\* a loop that hands what it has to createTree as soon as it would await
LoopFromCommitEarly(r, l) ==
  LET st == LoopSync(inp[r].edits, l.i, l.treeEntries)
  IN /\ loc' = [loc EXCEPT ![r] = [l EXCEPT !.i = st.i, !.treeEntries = st.entries]]
     /\ IF Len(st.entries) > 0 THEN Goto(r, "createTree")
        ELSE IF st.i <= Len(inp[r].edits) THEN Goto(r, "getContent")
        ELSE Respond(r, 400, "no_change")

\* a loop that goes on to createTree with no entries
LoopFromNoCheck(r, l) ==
  LET st == LoopSync(inp[r].edits, l.i, l.treeEntries)
  IN /\ loc' = [loc EXCEPT ![r] = [l EXCEPT !.i = st.i, !.treeEntries = st.entries]]
     /\ IF st.i <= Len(inp[r].edits) THEN Goto(r, "getContent")
        ELSE Goto(r, "createTree")

\* run the loop from the state l; after it, throw no_change or go on to createTree
LoopFrom(r, l) ==
  LET st == LoopSync(inp[r].edits, l.i, l.treeEntries)
  IN /\ loc' = [loc EXCEPT ![r] = [l EXCEPT !.i = st.i, !.treeEntries = st.entries]]
     /\ IF st.i <= Len(inp[r].edits) THEN Goto(r, "getContent")
        ELSE IF Len(st.entries) = 0 THEN Respond(r, 400, "no_change")
        ELSE Goto(r, "createTree")

\* the open pull requests of head and base, newest first
OpenPRs(head, base) ==
  {n \in 1..Len(prs) : prs[n].open /\ prs[n].head = head /\ prs[n].base = base}
Newest(S) == CHOOSE n \in S : \A m \in S : m <= n

\* a remote that accepts a second open pull request of the same head and base
PullCreateAnyNumber(head, base) == refs[head] = refs[base]

\* the remote refuses a pull request that duplicates an open one, or whose
\* head has nothing the base lacks
PullCreateRefused(head, base) ==
  OpenPRs(head, base) # {} \/ refs[head] = refs[base]

NewPR(r) ==
  [head |-> Branch, base |-> BaseBranch, open |-> TRUE, by |-> r,
   updatedBy |-> {}, labels |-> FALSE, reviewers |-> FALSE]

(***************************************************************************)
(* POST /apply, up to its first await: token, shape checks, path gate      *)
(***************************************************************************)
Reject(r, in, status, error) ==
  /\ inp' = [inp EXCEPT ![r] = in]
  /\ Respond(r, status, error)

ApplyStart(r) ==
  /\ pc[r] = "idle"
  /\ \A q \in Before(r) : pc[q] = "done"
  /\ UNCHANGED <<remote, workload, wfKey, probe, loc, calls, faulted, moved>>
  /\ \E token \in TokenHeaders :
      LET in0 == [NoInput EXCEPT !.endpoint = "apply", !.token = token]
      IN IF ~requireToken(token) THEN Reject(r, in0, 401, "unauthorized")
         ELSE \E repo \in {None, "o/r"} :
      LET in1 == [in0 EXCEPT !.repo = repo]
      IN IF ~Truthy(repo) THEN Reject(r, in1, 400, "owner_repo_required")
         ELSE \E branch \in {None, Branch} :
      LET in2 == [in1 EXCEPT !.branch = branch]
      IN IF ~Truthy(branch) THEN Reject(r, in2, 400, "invalid")
         ELSE \E prTitle \in {None, "t"} :
      LET in3 == [in2 EXCEPT !.prTitle = prTitle]
      IN IF ~Truthy(prTitle) THEN Reject(r, in3, 400, "invalid")
         ELSE \E kind \in {"missing", "empty", "array"} :
      LET in4 == [in3 EXCEPT !.editsKind = kind]
      IN IF kind # "array" THEN Reject(r, in4, 400, "invalid")
         ELSE \E edits \in Batches(Load.pool) : \E hdr \in HeaderChoices(edits) :
      LET in5 == [in4 EXCEPT !.edits = edits, !.hdr = hdr]
          gate == validatePathsOrDie(hdr, wfKey, edits)
      IN IF ~gate.ok THEN Reject(r, in5, gate.status, gate.error)
         ELSE \E strategy \in {"reuse", None} :
              /\ inp' = [inp EXCEPT ![r] = [in5 EXCEPT !.strategy = strategy]]
              /\ Goto(r, IF strategy = "reuse" THEN "lookup" ELSE "newBase")

(***************************************************************************)
(* POST /plan                                                              *)
(***************************************************************************)
\* a plan that carries the edits the request body holds
PlanWithBodyEdits(body) ==
  [title |-> body.goal, repo |-> body.repo, baseBranch |-> BaseBranch,
   edits |-> body.edits]

\* const plan: Plan = {title, summary, repo, baseBranch, branch, labels,
\* runChecks, edits: []}
PlanSkeleton(body) ==
  [title |-> body.goal, repo |-> body.repo, baseBranch |-> BaseBranch,
   edits |-> <<>>]

\* the bodies sent to /plan: with or without a goal and a repo, and with
\* whatever edits the client chose to add
PlanBodies ==
  [goal : {None, "g"}, repo : {None, "o/r"},
   edits : {<<>>} \cup {<<e>> : e \in Load.pool}]

Plan(r) ==
  /\ pc[r] = "idle"
  /\ \A q \in Before(r) : pc[q] = "done"
  /\ UNCHANGED <<remote, workload, wfKey, probe, loc, calls, faulted, moved>>
  /\ \E token \in TokenHeaders :
      LET in0 == [NoInput EXCEPT !.endpoint = "plan", !.token = token]
      IN IF ~requireToken(token) THEN Reject(r, in0, 401, "unauthorized")
         ELSE \E body \in PlanBodies :
              IF ~Truthy(body.goal) \/ ~Truthy(body.repo)
                THEN Reject(r, [in0 EXCEPT !.repo = body.repo], 400, "invalid")
                ELSE /\ inp' = [inp EXCEPT ![r] =
                                  [in0 EXCEPT !.repo = body.repo, !.edits = body.edits]]
                     /\ pc' = [pc EXCEPT ![r] = "done"]
                     /\ resp' = [resp EXCEPT ![r] =
                                   [status |-> 200, error |-> None, commit |-> 0,
                                    plan |-> PlanSkeleton(body)]]

(***************************************************************************)
(* Branch resolver                                                         *)
(***************************************************************************)
\* ensureBranchAndGetHeadSha, the lookup of the named branch.  The catch
\* clause is empty: every failure of the lookup falls through to creation.
\* a lookup that answers with the base branch's head
LookupFoundBase(r) ==
  /\ loc' = [loc EXCEPT ![r].seen = refs[Branch], ![r].headSha = refs[BaseBranch]]
  /\ Goto(r, "getCommit")

\* the lookup found the ref: return (ref.data.object as any).sha
LookupFound(r) ==
  /\ loc' = [loc EXCEPT ![r].seen = refs[Branch], ![r].headSha = refs[Branch]]
  /\ Goto(r, "getCommit")

Lookup(r) ==
  /\ pc[r] = "lookup"
  /\ Issue(r, "getRef")
  /\ UNCHANGED <<remote, workload, wfKey, probe, inp, moved>>
  /\ \/ /\ refs[Branch] # 0
        /\ LookupFound(r)
        /\ UNCHANGED faulted
     \/ /\ refs[Branch] = 0
        /\ loc' = [loc EXCEPT ![r].seen = 0]
        /\ Goto(r, "ensBase")
        /\ UNCHANGED faulted
     \/ /\ CanFault
        /\ Fault(r)
        /\ loc' = [loc EXCEPT ![r].seen = refs[Branch]]
        /\ Goto(r, "ensBase")

\* getRef of the base branch, in ensureBranchAndGetHeadSha (next: "ensCreate")
\* and in the create-new branch of /apply (next: "newCreate")
GetBase(r, at, next) ==
  /\ pc[r] = at
  /\ Issue(r, "getRef")
  /\ UNCHANGED <<remote, workload, wfKey, probe, inp, moved>>
  /\ \/ /\ loc' = [loc EXCEPT ![r].baseSha = refs[BaseBranch]]
        /\ Goto(r, next)
        /\ UNCHANGED faulted
     \/ /\ CanFault
        /\ Fault(r)
        /\ Respond(r, 500, "apply_failed")
        /\ UNCHANGED loc

EnsBase(r) == GetBase(r, "ensBase", "ensCreate")
NewBase(r) == GetBase(r, "newBase", "newCreate")

\* the remote's createRef: it refuses a ref that exists
CreateRefOk(r) ==
  /\ refs[Branch] = 0
  /\ refs' = [refs EXCEPT ![Branch] = loc[r].baseSha]
  /\ loc' = [loc EXCEPT ![r].headSha = loc[r].baseSha, ![r].seen = 0]
  /\ Goto(r, "getCommit")
  /\ UNCHANGED <<trees, commits, prs, faulted>>

\* createRef in ensureBranchAndGetHeadSha: a failure propagates to /apply's catch
EnsCreate(r) ==
  /\ pc[r] = "ensCreate"
  /\ Issue(r, "createRef")
  /\ UNCHANGED <<workload, wfKey, probe, inp, moved>>
  /\ \/ CreateRefOk(r)
     \/ /\ refs[Branch] # 0
        /\ Respond(r, 500, "apply_failed")
        /\ UNCHANGED <<remote, loc, faulted>>
     \/ /\ CanFault
        /\ Fault(r)
        /\ Respond(r, 500, "apply_failed")
        /\ UNCHANGED <<remote, loc>>

\* a catch clause that hands the createRef failure to /apply's outer catch
CreateRefCatchApplyFailed(r) ==
  /\ Respond(r, 500, "apply_failed")
  /\ loc' = [loc EXCEPT ![r].seen = refs[Branch]]
  /\ UNCHANGED remote

\* a catch clause that adopts the branch it found and commits on its head
CreateRefCatchAdopt(r) ==
  /\ Goto(r, "getCommit")
  /\ loc' = [loc EXCEPT ![r].seen = refs[Branch],
                        ![r].headSha = IF refs[Branch] # 0 THEN refs[Branch]
                                       ELSE loc[r].baseSha]
  /\ UNCHANGED remote

\* what /apply's create-new branch does when createRef throws: catch (err)
\* answers branch_exists whatever err is
CreateRefCatch(r) ==
  /\ Respond(r, 422, "branch_exists")
  /\ loc' = [loc EXCEPT ![r].seen = refs[Branch]]
  /\ UNCHANGED remote

\* createRef in /apply's create-new branch
NewCreate(r) ==
  /\ pc[r] = "newCreate"
  /\ Issue(r, "createRef")
  /\ UNCHANGED <<workload, wfKey, probe, inp, moved>>
  /\ \/ CreateRefOk(r)
     \/ /\ refs[Branch] # 0
        /\ CreateRefCatch(r)
        /\ UNCHANGED faulted
     \/ /\ CanFault
        /\ Fault(r)
        /\ CreateRefCatch(r)

(***************************************************************************)
(* Batch committer: commitBatch                                            *)
(***************************************************************************)
\* a call fails for an external reason and the error reaches /apply's catch
Throw(r) ==
  /\ CanFault
  /\ Fault(r)
  /\ Respond(r, 500, "apply_failed")
  /\ UNCHANGED <<remote, loc, moved>>

\* getCommit(parentSha), then the loop up to its first await
GetCommit(r) ==
  /\ pc[r] = "getCommit"
  /\ Issue(r, "getCommit")
  /\ UNCHANGED <<workload, wfKey, probe, inp>>
  /\ \/ /\ LoopFrom(r, [loc[r] EXCEPT !.baseTree = commits[loc[r].headSha].tree,
                                      !.i = 1, !.treeEntries = <<>>])
        /\ UNCHANGED <<remote, faulted, moved>>
     \/ Throw(r)

\* path names a directory of the tree: some file lies below it
IsDirectory(tree, path) ==
  LET d == IF path[Len(path)] = "/" THEN SubSeq(path, 1, Len(path) - 1) ELSE path
  IN \E f \in tree :
        Len(f.path) > Len(d) /\ SubSeq(f.path, 1, Len(d) + 1) = d \o <<"/">>

\* what getContent answers for a path of the tree: a listing for the root
\* (no path) or a directory, the file's content, or 404
TipContent(tree, path) ==
  IF path = NoPath THEN Dir
  ELSE IF IsDirectory(tree, path) THEN Dir
  ELSE FileAt(tree, path)

\* what repos.getContent({path, ref: branch}) finds: the file at the tip the
\* branch has when the call is made
ContentAtTip(path) == TipContent(trees[commits[refs[Branch]].tree], path)

\* a replace branch that creates the file it did not find
ReplaceEntriesCreates(entries, e, cur) ==
  IF cur = Absent \/ cur = Dir
    THEN Append(entries, [path |-> e.path, content |-> e.replace])
    ELSE Append(entries, [path |-> e.path,
                          content |-> JsReplace(cur, e.search, e.replace)])

\* a replace branch without the next === current guard
ReplaceEntriesNoGuard(entries, e, cur) ==
  IF cur = Absent \/ cur = Dir THEN entries
  ELSE Append(entries, [path |-> e.path,
                        content |-> JsReplace(cur, e.search, e.replace)])

\* the tree entries after a replace edit e whose fetch returned cur
ReplaceEntries(entries, e, cur) ==
  LET next == JsReplace(cur, e.search, e.replace)
  IN IF cur = Absent \/ cur = Dir \/ next = cur THEN entries
     ELSE Append(entries, [path |-> e.path, content |-> next])

\* a replace branch that works on the entry an earlier edit of the batch
\* left for the path, when there is one
GetContentPending(r) ==
  /\ pc[r] = "getContent"
  /\ Issue(r, "getContent")
  /\ UNCHANGED <<remote, workload, wfKey, probe, inp, moved>>
  /\ LET e == inp[r].edits[loc[r].i]
         pending == {j \in 1..Len(loc[r].treeEntries) : loc[r].treeEntries[j].path = e.path}
         cur == IF pending = {} THEN ContentAtTip(e.path)
                ELSE loc[r].treeEntries[CHOOSE j \in pending : \A m \in pending : m <= j].content
     IN \/ /\ LoopFrom(r, [loc[r] EXCEPT
                             !.i = @ + 1,
                             !.treeEntries = ReplaceEntries(@, e, cur)])
           /\ UNCHANGED faulted
        \/ /\ CanFault
           /\ Fault(r)
           /\ LoopFrom(r, [loc[r] EXCEPT !.i = @ + 1])

\* the replace branch of the loop: any failure of the fetch is caught and the
\* edit skipped; then the loop runs on to its next await
GetContent(r) ==
  /\ pc[r] = "getContent"
  /\ Issue(r, "getContent")
  /\ UNCHANGED <<remote, workload, wfKey, probe, inp, moved>>
  /\ LET e == inp[r].edits[loc[r].i]
     IN \/ /\ LoopFrom(r, [loc[r] EXCEPT
                             !.i = @ + 1,
                             !.treeEntries = ReplaceEntries(@, e, ContentAtTip(e.path))])
           /\ UNCHANGED faulted
        \/ /\ CanFault
           /\ Fault(r)
           /\ LoopFrom(r, [loc[r] EXCEPT !.i = @ + 1])

\* the SHA of a tree: trees are content-addressed
TreeSha(tree) ==
  IF \E n \in 1..Len(trees) : trees[n] = tree
    THEN CHOOSE n \in 1..Len(trees) : trees[n] = tree
    ELSE Len(trees) + 1

\* a createTree that answers with the base tree, whatever the entries
StoreTreeBaseOnly(r, tree) ==
  /\ trees' = trees
  /\ loc' = [loc EXCEPT ![r].newTree = loc[r].baseTree]

\* the remote's createTree: the entries layered on the base tree
StoreTree(r, tree) ==
  /\ trees' = IF TreeSha(tree) > Len(trees) THEN Append(trees, tree) ELSE trees
  /\ loc' = [loc EXCEPT ![r].newTree = TreeSha(tree)]

\* createTree({base_tree, tree}): the remote refuses an entry without a path
CreateTree(r) ==
  /\ pc[r] = "createTree"
  /\ Issue(r, "createTree")
  /\ UNCHANGED <<workload, wfKey, probe, inp>>
  /\ \/ /\ \A k \in 1..Len(loc[r].treeEntries) : loc[r].treeEntries[k].path # NoPath
        /\ StoreTree(r, Overlay(trees[loc[r].baseTree], loc[r].treeEntries))
        /\ Goto(r, "createCommit")
        /\ UNCHANGED <<refs, commits, prs, faulted, moved>>
     \/ /\ \E k \in 1..Len(loc[r].treeEntries) : loc[r].treeEntries[k].path = NoPath
        /\ Respond(r, 500, "apply_failed")
        /\ UNCHANGED <<remote, loc, faulted, moved>>
     \/ Throw(r)

\* createCommit({tree, parents: [parentSha]})
CreateCommit(r) ==
  /\ pc[r] = "createCommit"
  /\ Issue(r, "createCommit")
  /\ UNCHANGED <<workload, wfKey, probe, inp>>
  /\ \/ /\ commits' = Append(commits, [parents |-> <<loc[r].headSha>>,
                                       tree |-> loc[r].newTree, by |-> r])
        /\ loc' = [loc EXCEPT ![r].newSha = Len(commits) + 1]
        /\ Goto(r, "updateRef")
        /\ UNCHANGED <<refs, trees, prs, faulted, moved>>
     \/ Throw(r)

\* an updateRef whose failure is swallowed: the handler goes on to the
\* pull request
UpdateRefSwallowed(r) ==
  /\ pc[r] = "updateRef"
  /\ Issue(r, "updateRef")
  /\ UNCHANGED <<workload, wfKey, probe, inp>>
  /\ \/ /\ refs' = [refs EXCEPT ![Branch] = loc[r].newSha]
        /\ moved' = [moved EXCEPT ![r] = @ + 1]
        /\ Goto(r, "listPRs")
        /\ UNCHANGED <<trees, commits, prs, loc, faulted>>
     \/ /\ CanFault
        /\ Fault(r)
        /\ Goto(r, "listPRs")
        /\ UNCHANGED <<remote, loc, moved>>

\* updateRef({ref: heads/branch, sha, force: true})
UpdateRef(r) ==
  /\ pc[r] = "updateRef"
  /\ Issue(r, "updateRef")
  /\ UNCHANGED <<workload, wfKey, probe, inp>>
  /\ \/ /\ refs' = [refs EXCEPT ![Branch] = loc[r].newSha]
        /\ moved' = [moved EXCEPT ![r] = @ + 1]
        /\ Goto(r, "listPRs")
        /\ UNCHANGED <<trees, commits, prs, loc, faulted>>
     \/ Throw(r)

(***************************************************************************)
(* PR reconciler: the try/catch after commitBatch                          *)
(***************************************************************************)
\* a failure inside the try treated as fatal
CaughtAsFatal(r) ==
  /\ CanFault
  /\ Fault(r)
  /\ Respond(r, 500, "apply_failed")
  /\ UNCHANGED <<remote, inp, loc>>

\* a call inside the try fails: the catch clause creates a pull request
Caught(r) ==
  /\ CanFault
  /\ Fault(r)
  /\ Goto(r, "createPR2")
  /\ UNCHANGED <<remote, inp, loc>>

ListPRs(r) ==
  /\ pc[r] = "listPRs"
  /\ Issue(r, "pulls.list")
  /\ UNCHANGED <<workload, wfKey, probe, moved>>
  /\ \/ /\ OpenPRs(Branch, BaseBranch) # {}
        /\ loc' = [loc EXCEPT ![r].prNumber = Newest(OpenPRs(Branch, BaseBranch))]
        /\ Goto(r, "updatePR")
        /\ UNCHANGED <<remote, inp, faulted>>
     \/ /\ OpenPRs(Branch, BaseBranch) = {}
        /\ Goto(r, "createPR")
        /\ UNCHANGED <<remote, inp, loc, faulted>>
     \/ Caught(r)

UpdatePR(r) ==
  /\ pc[r] = "updatePR"
  /\ Issue(r, "pulls.update")
  /\ UNCHANGED <<workload, wfKey, probe, moved>>
  /\ \/ /\ prs' = [prs EXCEPT ![loc[r].prNumber].updatedBy = @ \cup {r}]
        /\ Respond(r, 200, None)
        /\ UNCHANGED <<refs, trees, commits, inp, loc, faulted>>
     \/ Caught(r)

\* after the pull request exists: labels, then reviewers, then the response
AfterCreate(r, labels, reviewers) ==
  IF labels THEN Goto(r, "addLabels")
  ELSE IF reviewers THEN Goto(r, "requestReviewers")
  ELSE Respond(r, 200, None)

CreatePR(r) ==
  /\ pc[r] = "createPR"
  /\ Issue(r, "pulls.create")
  /\ UNCHANGED <<workload, wfKey, probe, moved>>
  /\ \/ /\ ~PullCreateRefused(Branch, BaseBranch)
        /\ prs' = Append(prs, NewPR(r))
        /\ loc' = [loc EXCEPT ![r].prNumber = Len(prs) + 1]
        /\ \E labels \in Load.cosmetics : \E reviewers \in Load.cosmetics :
             /\ inp' = [inp EXCEPT ![r].labels = IF labels THEN "some" ELSE None,
                                   ![r].reviewers = IF reviewers THEN "some" ELSE None]
             /\ AfterCreate(r, labels, reviewers)
        /\ UNCHANGED <<refs, trees, commits, faulted>>
     \/ /\ PullCreateRefused(Branch, BaseBranch)
        /\ Goto(r, "createPR2")
        /\ UNCHANGED <<remote, inp, loc, faulted>>
     \/ Caught(r)

AddLabels(r) ==
  /\ pc[r] = "addLabels"
  /\ Issue(r, "addLabels")
  /\ UNCHANGED <<workload, wfKey, probe, moved>>
  /\ \/ /\ prs' = [prs EXCEPT ![loc[r].prNumber].labels = TRUE]
        /\ AfterCreate(r, FALSE, inp[r].reviewers = "some")
        /\ UNCHANGED <<refs, trees, commits, inp, loc, faulted>>
     \/ Caught(r)

RequestReviewers(r) ==
  /\ pc[r] = "requestReviewers"
  /\ Issue(r, "requestReviewers")
  /\ UNCHANGED <<workload, wfKey, probe, moved>>
  /\ \/ /\ prs' = [prs EXCEPT ![loc[r].prNumber].reviewers = TRUE]
        /\ Respond(r, 200, None)
        /\ UNCHANGED <<refs, trees, commits, inp, loc, faulted>>
     \/ Caught(r)

\* pulls.create in the catch clause: its failure reaches /apply's outer catch
CreatePR2(r) ==
  /\ pc[r] = "createPR2"
  /\ Issue(r, "pulls.create")
  /\ UNCHANGED <<workload, wfKey, probe, inp, moved>>
  /\ \/ /\ ~PullCreateRefused(Branch, BaseBranch)
        /\ prs' = Append(prs, NewPR(r))
        /\ loc' = [loc EXCEPT ![r].prNumber = Len(prs) + 1]
        /\ Respond(r, 200, None)
        /\ UNCHANGED <<refs, trees, commits, faulted>>
     \/ /\ PullCreateRefused(Branch, BaseBranch)
        /\ Respond(r, 500, "apply_failed")
        /\ UNCHANGED <<remote, loc, faulted>>
     \/ /\ CanFault
        /\ Fault(r)
        /\ Respond(r, 500, "apply_failed")
        /\ UNCHANGED <<remote, loc>>

(***************************************************************************)
(* Specifications                                                          *)
(***************************************************************************)
Next ==
  \E r \in Reqs :
    \/ ApplyStart(r)
    \/ Plan(r)
    \/ Lookup(r)
    \/ EnsBase(r)
    \/ EnsCreate(r)
    \/ NewBase(r)
    \/ NewCreate(r)
    \/ GetCommit(r)
    \/ GetContent(r)
    \/ CreateTree(r)
    \/ CreateCommit(r)
    \/ UpdateRef(r)
    \/ ListPRs(r)
    \/ UpdatePR(r)
    \/ CreatePR(r)
    \/ AddLabels(r)
    \/ RequestReviewers(r)
    \/ CreatePR2(r)

\* two clients whose requests interleave, on a reliable remote
Spec == Init /\ [][Next]_vars

(***************************************************************************)
(* The schema-validated POST /apply: newBranch, then per edit the gate,     *)
(* getFile and upsert, then openPR                                         *)
(***************************************************************************)
\* getFile(gh, owner, repo, path): getContent without a ref reads the default
\* branch; any failure gives null
LegacyFile(path) == TipContent(trees[commits[refs[BaseBranch]].tree], path)

\* the loop from edit i up to its next await: the gate of edit i, then getFile
LegacyLoop(r, i) ==
  IF i > Len(inp[r].edits)
    THEN /\ loc' = [loc EXCEPT ![r].i = i, ![r].treeEntries = <<>>]
         /\ Goto(r, "lgOpenPR")
  ELSE IF ~isPathAllowed(inp[r].edits[i].path)
    THEN /\ loc' = [loc EXCEPT ![r].i = i, ![r].treeEntries = <<>>]
         /\ Respond(r, 403, "path_not_allowed")
  ELSE IF /\ isWorkflowPath(inp[r].edits[i].path)
          /\ \/ ~Truthy(wfKey)
             \/ (IF inp[r].hdr = None THEN "" ELSE inp[r].hdr) # wfKey
    THEN /\ loc' = [loc EXCEPT ![r].i = i, ![r].treeEntries = <<>>]
         /\ Respond(r, 403, "workflow_edit_blocked")
  ELSE /\ loc' = [loc EXCEPT ![r].i = i, ![r].treeEntries = <<>>]
       /\ Goto(r, "lgGetFile")

\* the auth middleware and ApplyReq.parse; nothing is gated here
LegacyStart(r) ==
  /\ pc[r] = "idle"
  /\ UNCHANGED <<remote, workload, wfKey, probe, loc, calls, faulted, moved>>
  /\ \E token \in TokenHeaders :
      LET in0 == [NoInput EXCEPT !.endpoint = "legacy", !.token = token]
      IN IF token # BUTLER_TOKEN THEN Reject(r, in0, 401, "unauthorized")
         ELSE \E edits \in Batches(Load.pool) : \E hdr \in ApproveHeaders :
                /\ inp' = [inp EXCEPT ![r] =
                             [in0 EXCEPT !.edits = edits, !.hdr = hdr,
                                         !.editsKind = "array", !.branch = Branch]]
                /\ Goto(r, "lgMainSha")

\* mainSha: repos.getBranch of the base branch
LegacyMainSha(r) ==
  /\ pc[r] = "lgMainSha"
  /\ Issue(r, "getBranch")
  /\ loc' = [loc EXCEPT ![r].baseSha = refs[BaseBranch]]
  /\ Goto(r, "lgNewBranch")
  /\ UNCHANGED <<remote, workload, wfKey, probe, inp, faulted, moved>>

\* newBranch: git.createRef, which throws when the ref exists; then the loop
\* starts
LegacyNewBranch(r) ==
  /\ pc[r] = "lgNewBranch"
  /\ Issue(r, "createRef")
  /\ UNCHANGED <<trees, commits, prs, workload, wfKey, probe, inp, faulted, moved>>
  /\ IF refs[Branch] # 0
       THEN /\ Respond(r, 500, "apply_failed")
            /\ UNCHANGED <<refs, loc>>
       ELSE /\ refs' = [refs EXCEPT ![Branch] = loc[r].baseSha]
            /\ LegacyLoop(r, 1)

\* the first getFile of a write or replace edit, up to the upsert it leads to
LegacyGetFile(r) ==
  /\ pc[r] = "lgGetFile"
  /\ Issue(r, "getContent")
  /\ UNCHANGED <<remote, workload, wfKey, probe, inp, faulted, moved>>
  /\ LET e == inp[r].edits[loc[r].i]
         existing == LegacyFile(e.path)
         before == IF existing = Dir THEN <<>> ELSE existing
         content == IF e.encoding = "base64" THEN Base64Decode(e.content) ELSE e.content
         after == IF e.all # "false" THEN SplitJoin(before, e.search, e.replace)
                  ELSE JsReplace(before, e.search, e.replace)
         upsert(c) == /\ loc' = [loc EXCEPT ![r].treeEntries =
                                    <<[path |-> e.path, content |-> c]>>]
                      /\ Goto(r, "lgUpsert")
     IN IF e.op = "write"
          THEN IF e.mode = "create" /\ existing # Absent
                 THEN LegacyLoop(r, loc[r].i + 1)
                 ELSE upsert(content)
        ELSE IF existing = Absent
          THEN Respond(r, 400, "file_not_found") /\ UNCHANGED loc
        ELSE IF after = before
          THEN Respond(r, 400, "no_change") /\ UNCHANGED loc
        ELSE upsert(after)

\* upsert: getFile for the blob sha, then createOrUpdateFileContents on the
\* branch, which commits the file there; the remote refuses a directory
\* path and a sha that is not the one of the branch's file
LegacyUpsert(r) ==
  /\ pc[r] = "lgUpsert"
  /\ calls' = [calls EXCEPT ![r] = @ \cup {"getContent", "createOrUpdateFileContents"}]
  /\ UNCHANGED <<prs, workload, wfKey, probe, inp, faulted>>
  /\ LET ent == loc[r].treeEntries[1]
         onBranch == trees[commits[refs[Branch]].tree]
         tree == Overlay(onBranch, <<ent>>)
     IN IF \/ TipContent(onBranch, ent.path) = Dir
           \/ FileAt(onBranch, ent.path) # LegacyFile(ent.path)
          THEN /\ Respond(r, 500, "apply_failed")
               /\ UNCHANGED <<refs, trees, commits, loc, moved>>
          ELSE /\ trees' = IF TreeSha(tree) > Len(trees) THEN Append(trees, tree) ELSE trees
               /\ commits' = Append(commits, [parents |-> <<refs[Branch]>>,
                                              tree |-> TreeSha(tree), by |-> r])
               /\ refs' = [refs EXCEPT ![Branch] = Len(commits) + 1]
               /\ moved' = [moved EXCEPT ![r] = @ + 1]
               /\ LegacyLoop(r, loc[r].i + 1)

\* openPR: pulls.create, then res.json({ok: true, prUrl})
LegacyOpenPR(r) ==
  /\ pc[r] = "lgOpenPR"
  /\ Issue(r, "pulls.create")
  /\ UNCHANGED <<refs, trees, commits, workload, wfKey, probe, inp, faulted, moved>>
  /\ IF PullCreateRefused(Branch, BaseBranch)
       THEN /\ Respond(r, 500, "apply_failed")
            /\ UNCHANGED <<prs, loc>>
       ELSE /\ prs' = Append(prs, NewPR(r))
            /\ loc' = [loc EXCEPT ![r].prNumber = Len(prs) + 1]
            /\ Respond(r, 200, None)

NextLegacy ==
  \E r \in Reqs :
    \/ LegacyStart(r)
    \/ LegacyMainSha(r)
    \/ LegacyNewBranch(r)
    \/ LegacyGetFile(r)
    \/ LegacyUpsert(r)
    \/ LegacyOpenPR(r)

InitLegacy ==
  /\ \E withBranch \in BOOLEAN : InitRemote(withBranch)
  /\ InitRequests({"r1"})
  /\ workload = "legacy"
  /\ wfKey \in {"", "wfkey"}
  /\ probe = NoProbe

SpecLegacy == InitLegacy /\ [][NextLegacy]_vars

(***************************************************************************)
(* The path allowlist applied on its own                                   *)
(***************************************************************************)
\* paths put to isPathAllowed: a prefix, directories, a file name
PathPrefixes ==
  {<<>>, <<".","/">>, <<".","/","/">>, <<".","\\">>, <<"/">>}
PathDirs ==
  {<<>>, <<"s","r","c","/">>, <<"s","r","c","\\">>, <<"d","o","c","s","/">>,
   <<"e","t","c","/">>, <<"s","r","c","/","d","/">>, WorkflowPrefix}
PathNames ==
  {<<>>, <<"a">>, <<"a",".","m","d">>, <<"a","x","m","d">>,
   <<"R","E","A","D","M","E",".","m","d">>,
   <<"R","E","A","D","M","E","x",".","m","d">>,
   <<"p","a","c","k","a","g","e",".","j","s","o","n">>,
   <<"a","\n","b">>, <<"a","\n",".","m","d">>}
GlobPaths ==
  {pre \o dir \o name : pre \in PathPrefixes, dir \in PathDirs, name \in PathNames}

InitGlob ==
  /\ InitRemote(FALSE)
  /\ InitRequests({})
  /\ workload = "gate"
  /\ wfKey = "wfkey"
  /\ \E p \in GlobPaths :
        probe = [fn |-> "isPathAllowed", arg |-> p, done |-> FALSE, out |-> FALSE]

\* isPathAllowed(p) is called and returns
CallIsPathAllowed ==
  /\ probe.fn = "isPathAllowed"
  /\ ~probe.done
  /\ probe' = [probe EXCEPT !.done = TRUE, !.out = isPathAllowed(probe.arg)]
  /\ UNCHANGED <<remote, workload, wfKey, pc, inp, loc, resp, calls, faulted, moved>>

SpecGlob == InitGlob /\ [][CallIsPathAllowed]_vars

(***************************************************************************)
(* The /run policy applied on its own                                      *)
(***************************************************************************)
\* An action name or a policy entry is a sequence of tokens:
\* "sql_migrate:staging" is <<"sql_migrate", ":", "staging">>.
\* loadPolicy(): the embedded default policy
loadPolicy ==
  [repos |->
     [k \in {"default"} |->
        [tools |->
           [t \in {"github", "supabase", "stripe", "deploy", "email"} |->
              CASE t = "github" ->
                     [allow |-> {<<"read_file">>, <<"write_file">>, <<"open_pr">>},
                      deny |-> {}]
                [] t = "supabase" ->
                     [allow |-> {<<"deploy_function">>, <<"set_function_env">>,
                                 <<"invoke_rpc">>,
                                 <<"sql_migrate", ":", "staging">>},
                      deny |-> {<<"sql_migrate", ":", "prod">>}]
                [] t = "stripe" ->
                     [allow |-> {<<"read_connect_account", ":", "test">>},
                      deny |-> {}]
                [] t = "deploy" ->
                     [allow |-> {<<"create_preview">>}, deny |-> {}]
                [] t = "email" ->
                     [allow |-> {<<"send_test">>}, deny |-> {}]]]]]

\* a policy that also holds a rule for the repository o/r, where the same
\* action is listed under allow and under deny
RepoPolicy ==
  [repos |->
     [k \in {"default", "o/r"} |->
        IF k = "default" THEN loadPolicy.repos["default"]
        ELSE [tools |->
                [t \in {"supabase", "email"} |->
                   IF t = "supabase"
                   THEN [allow |-> {<<"invoke_rpc">>, <<"sql_migrate">>},
                         deny |-> {<<"invoke_rpc">>,
                                   <<"sql_migrate", ":", "prod">>}]
                   ELSE [allow |-> {<<"send_test">>}, deny |-> {}]]]]]

\* action.includes('sql_migrate')
IncludesSqlMigrate(action) ==
  \E k \in 1..Len(action) : action[k] = "sql_migrate"

\* the key isAllowed looks up beside the action: env is appended only to an
\* action that includes sql_migrate, and only when env is not empty
PolicyKey(action, env) ==
  IF env # "" /\ IncludesSqlMigrate(action)
  THEN action \o <<":", env>>
  ELSE action

\* isAllowed(policy, repo, tool, action, env)
isAllowed(policy, repo, tool, action, env) ==
  LET rule == IF repo \in DOMAIN policy.repos
              THEN policy.repos[repo]
              ELSE policy.repos["default"]
  IN IF tool \notin DOMAIN rule.tools THEN FALSE
     ELSE LET t == rule.tools[tool]
              key == PolicyKey(action, env)
          IN IF \E a \in t.deny : a = key \/ a = action THEN FALSE
             ELSE IF \E a \in t.allow : a = key \/ a = action THEN TRUE
             ELSE FALSE

\* arguments put to isAllowed
PolicyActions ==
  {<<>>, <<"read_file">>, <<"write_file">>, <<"invoke_rpc">>,
   <<"sql_migrate">>, <<"sql_migrate", ":", "staging">>,
   <<"sql_migrate", ":", "prod">>, <<"read_connect_account">>,
   <<"read_connect_account", ":", "test">>, <<"create_preview">>,
   <<"send_test">>, <<"drop_table">>}
PolicyArgs ==
  [policy : {loadPolicy, RepoPolicy}, repo : {"default", "o/r"},
   tool : {"github", "supabase", "stripe", "deploy", "email", "shell"},
   action : PolicyActions, env : {"", "staging", "prod", "test"}]

InitPolicy ==
  /\ InitRemote(FALSE)
  /\ InitRequests({})
  /\ workload = "gate"
  /\ wfKey = "wfkey"
  /\ \E a \in PolicyArgs :
        probe = [fn |-> "isAllowed", arg |-> a, done |-> FALSE, out |-> FALSE]

\* isAllowed(policy, repo, tool, action, env) is called and returns
CallIsAllowed ==
  /\ probe.fn = "isAllowed"
  /\ ~probe.done
  /\ probe' = [probe EXCEPT
                 !.done = TRUE,
                 !.out = isAllowed(probe.arg.policy, probe.arg.repo,
                                   probe.arg.tool, probe.arg.action,
                                   probe.arg.env)]
  /\ UNCHANGED <<remote, workload, wfKey, pc, inp, loc, resp, calls, faulted, moved>>

SpecPolicy == InitPolicy /\ [][CallIsAllowed]_vars

(***************************************************************************)
(* POST /run: the steps of a plan, each checked against the policy and     *)
(* then dispatched                                                         *)
(***************************************************************************)
\* the tool.action pairs dispatch routes to an adapter
Implemented ==
  {<<"github", <<"create_branch">>>>, <<"github", <<"write_file">>>>,
   <<"github", <<"open_pr">>>>, <<"supabase", <<"deploy_function">>>>,
   <<"supabase", <<"set_function_env">>>>, <<"supabase", <<"invoke_rpc">>>>,
   <<"supabase", <<"sql_migrate">>>>, <<"stripe", <<"read_connect_account">>>>,
   <<"deploy", <<"create_preview">>>>, <<"email", <<"send_test">>>>}

\* dispatch(req, tool, action, args) up to the adapter call: the error it
\* throws by itself, or None when it calls the adapter
dispatch(hdr, key, tool, action, args) ==
  IF /\ tool = "github" /\ action = <<"write_file">>
     /\ args.path # NoPath /\ args.path # <<>> /\ isWorkflowPath(args.path)
     /\ (~Truthy(key) \/ hdr # key)
  THEN "workflow_edit_blocked"
  ELSE IF <<tool, action>> \in Implemented THEN None
  ELSE "unknown_tool_or_action"

\* steps of a plan; step.tool is "tool.action", held here as its two parts
\* ("github" alone has the action '')
RunPool ==
  {[tool |-> "github", action |-> <<"write_file">>, args |-> [path |-> P_src]],
   [tool |-> "github", action |-> <<"write_file">>, args |-> [path |-> P_wf]],
   [tool |-> "github", action |-> <<"create_branch">>, args |-> [path |-> NoPath]],
   [tool |-> "github", action |-> <<"read_file">>, args |-> [path |-> P_src]],
   [tool |-> "supabase", action |-> <<"sql_migrate">>, args |-> [path |-> NoPath]],
   [tool |-> "email", action |-> <<"send_test">>, args |-> [path |-> NoPath]],
   [tool |-> "github", action |-> <<>>, args |-> [path |-> NoPath]]}

\* RunReq.parse(req.body), then the loop reaches its first step
RunStart(r) ==
  /\ pc[r] = "idle"
  /\ \E steps \in Batches(RunPool) \cup {<<>>}, env \in {"staging", "prod"},
        hdr \in {"", "wfkey"} :
        /\ inp' = [inp EXCEPT ![r] = [endpoint |-> "run", steps |-> steps,
                                      env |-> env, hdr |-> hdr]]
        /\ IF steps = <<>>
           THEN /\ Respond(r, 400, "invalid")
                /\ UNCHANGED loc
           ELSE /\ Goto(r, "runCheck")
                /\ loc' = [loc EXCEPT ![r] = [i |-> 1, results |-> <<>>]]
  /\ UNCHANGED <<remote, workload, wfKey, probe, calls, faulted, moved>>

\* a policy check that passes over a blocked step instead of answering
RunCheckSkips(r) ==
  /\ pc[r] = "runCheck"
  /\ LET step == inp[r].steps[loc[r].i]
     IN IF isAllowed(loadPolicy, "default", step.tool, step.action, inp[r].env)
        THEN Goto(r, "runDispatch") /\ UNCHANGED loc
        ELSE IF loc[r].i = Len(inp[r].steps)
        THEN Respond(r, 403, "policy_block") /\ UNCHANGED loc
        ELSE Goto(r, "runCheck") /\ loc' = [loc EXCEPT ![r].i = @ + 1]
  /\ UNCHANGED <<remote, workload, wfKey, probe, inp, calls, faulted, moved>>

\* isAllowed(policy, 'default', tool, action, plan.env) for the step at hand
RunCheck(r) ==
  /\ pc[r] = "runCheck"
  /\ LET step == inp[r].steps[loc[r].i]
     IN IF isAllowed(loadPolicy, "default", step.tool, step.action, inp[r].env)
        THEN Goto(r, "runDispatch")
        ELSE Respond(r, 403, "policy_block")
  /\ UNCHANGED <<remote, workload, wfKey, probe, inp, loc, calls, faulted, moved>>

\* await dispatch(...): it throws by itself, or the adapter acts and
\* returns, or the adapter throws; then the next step or the 200
RunDispatch(r) ==
  /\ pc[r] = "runDispatch"
  /\ LET i == loc[r].i
         step == inp[r].steps[i]
         err == dispatch(inp[r].hdr, wfKey, step.tool, step.action, step.args)
         failed == /\ Respond(r, 500, "step_failed")
                   /\ loc' = [loc EXCEPT ![r].results =
                                Append(@, [at |-> i, ok |-> FALSE])]
     IN \/ /\ err # None
           /\ failed
           /\ UNCHANGED calls
        \/ /\ err = None
           /\ \E threw \in BOOLEAN :
                IF threw
                THEN /\ failed
                     /\ UNCHANGED calls
                ELSE /\ Issue(r, [at |-> i, tool |-> step.tool,
                                  action |-> step.action])
                     /\ loc' = [loc EXCEPT
                                  ![r].results = Append(@, [at |-> i, ok |-> TRUE]),
                                  ![r].i = i + 1]
                     /\ IF i = Len(inp[r].steps)
                        THEN /\ pc' = [pc EXCEPT ![r] = "done"]
                             /\ resp' = [resp EXCEPT ![r].status = 200]
                        ELSE Goto(r, "runCheck")
  /\ UNCHANGED <<remote, workload, wfKey, probe, inp, faulted, moved>>

NextRun == \E r \in Reqs : RunStart(r) \/ RunCheck(r) \/ RunDispatch(r)

InitRun ==
  /\ InitRemote(FALSE)
  /\ InitRequests({"r1"})
  /\ workload = "gate"
  /\ wfKey \in {"", "wfkey"}
  /\ probe = NoProbe

SpecRun == InitRun /\ [][NextRun]_vars

(***************************************************************************)
(* Remote calls that never return, and the timeout middleware               *)
(***************************************************************************)
\* the remote call r awaits never returns: the handler stays at its await
Hang(r) ==
  /\ Load.hangs
  /\ pc[r] \in AllSteps
  /\ pc' = [pc EXCEPT ![r] = "hung"]
  /\ UNCHANGED <<remote, workload, wfKey, probe, inp, loc, resp, calls, faulted, moved>>

\* res.setTimeout's callback: if (!sent) res.status(504).json({error:"timeout"});
\* the handler is not stopped and nothing is undone
Timeout(r) ==
  /\ Load.guard
  /\ pc[r] # "off"
  /\ resp[r].status = 0
  /\ resp' = [resp EXCEPT ![r] = [status |-> 504, error |-> "timeout", commit |-> 0, plan |-> None]]
  /\ UNCHANGED <<remote, workload, wfKey, probe, pc, inp, loc, calls, faulted, moved>>

NextLive ==
  \/ Next
  \/ \E r \in Reqs : Hang(r)
  \/ \E r \in Reqs : Timeout(r)

\* one client, on either assembly of the app
InitLive ==
  /\ \E withBranch \in BOOLEAN : InitRemote(withBranch)
  /\ InitRequests({"r1"})
  /\ workload \in {"live", "guarded"}
  /\ wfKey = "wfkey"
  /\ probe = NoProbe

\* the event loop runs every continuation whose call returned, and the
\* socket timer fires when it is due
SpecLive ==
  /\ InitLive
  /\ [][NextLive]_vars
  /\ WF_vars(Next)
  /\ \A r \in Reqs : WF_vars(Timeout(r))

\* one client, any batch over the whole pool, on an unreliable remote
InitOne ==
  /\ \E withBranch \in BOOLEAN : InitRemote(withBranch)
  /\ InitRequests({"r1"})
  /\ workload = "gate"
  /\ wfKey \in {"", "wfkey"}
  /\ probe = NoProbe

SpecOne == InitOne /\ [][Next]_vars

\* two clients taking turns
InitSeq ==
  /\ \E withBranch \in BOOLEAN : InitRemote(withBranch)
  /\ InitRequests(Reqs)
  /\ workload = "seq"
  /\ wfKey = "wfkey"
  /\ probe = NoProbe

SpecSeq == InitSeq /\ [][Next]_vars

\* two clients whose requests interleave while the PR reconciler's calls may fail
InitPR ==
  /\ \E withBranch \in BOOLEAN : InitRemote(withBranch)
  /\ InitRequests(Reqs)
  /\ workload = "pr"
  /\ wfKey = "wfkey"
  /\ probe = NoProbe

SpecPR == InitPR /\ [][Next]_vars

(***************************************************************************)
(* Claims                                                                  *)
(***************************************************************************)
Started(r) == pc[r] \notin {"off", "idle"}
Done(r) == pc[r] = "done"
IsApply(r) == Started(r) /\ inp[r].endpoint = "apply"
\* the handler got past the gate (it read the strategy)
PastGate(r) == IsApply(r) /\ inp[r].strategy # Unread
NoMutation(r) == calls[r] \cap MutatingCalls = {}
Is4xx(r) == Done(r) /\ resp[r].status \in 400..499
Answered(r, status, error) ==
  Done(r) /\ resp[r].status = status /\ resp[r].error = error

\* the approval header is absent or differs from the server's secret
HeaderMismatch(r) == inp[r].hdr # wfKey

\* the body fails a shape check, as C1 lists them
BadShape(r) ==
  \/ inp[r].branch = None
  \/ inp[r].prTitle = None
  \/ inp[r].editsKind \in {"missing", "empty"}
  \/ \E k \in 1..Len(inp[r].edits) : inp[r].edits[k].path = NoPath

\* some edit of the batch, at any position, names a path the gate must refuse
BadPath(r) ==
  \E k \in 1..Len(inp[r].edits) :
     LET p == inp[r].edits[k].path
     IN /\ p # NoPath
        /\ \/ ~isPathAllowed(p)
           \/ isWorkflowPath(p) /\ HeaderMismatch(r)

\* C1: an /apply request whose body fails a shape check (missing branch,
\* missing prTitle, empty or non-array edits, an edit without a path) or holds,
\* at any position, an edit whose path is not allowed or is a workflow path
\* without the matching approval header has issued no mutating remote call
\* and ends with a 4xx response (the answer is looked at on the runs where no
\* remote call failed for an external reason).
C1_GateBeforeMutation ==
  \A r \in Reqs :
     IsApply(r) /\ (BadShape(r) \/ BadPath(r))
       => NoMutation(r) /\ (Done(r) /\ faulted[r] = {} => Is4xx(r))

\* C1 with "an edit without a path" read as the code reads it, an edit with
\* neither path nor from (not the claim: the part of it the code keeps)
C1_AsCoded ==
  \A r \in Reqs :
     /\ IsApply(r)
     /\ \/ BadPath(r)
        \/ inp[r].branch = None
        \/ inp[r].prTitle = None
        \/ inp[r].editsKind \in {"missing", "empty"}
        \/ \E k \in 1..Len(inp[r].edits) : GatePath(inp[r].edits[k]) = NoPath
     => Is4xx(r) /\ NoMutation(r)

\* a workflow edit at position k of r's batch, sent without the matching header
UnapprovedWorkflowEdit(r, k) ==
  /\ IsApply(r)
  /\ k \in 1..Len(inp[r].edits)
  /\ inp[r].edits[k].path # NoPath
  /\ isWorkflowPath(inp[r].edits[k].path)
  /\ HeaderMismatch(r)

PassesGate(r, e) ==
  /\ GatePath(e) # NoPath
  /\ isPathAllowed(GatePath(e))
  /\ isWorkflowPath(GatePath(e)) => Truthy(inp[r].hdr) /\ inp[r].hdr = wfKey

C3_Unauthorized ==
  \A r \in Reqs :
     Started(r) /\ inp[r].token # BUTLER_TOKEN
       => Answered(r, 401, "unauthorized") /\ calls[r] = {}

\* C3's case: a wrong token on /apply
C3_Witness ==
  \E r \in Reqs :
     /\ inp[r].endpoint = "apply"
     /\ inp[r].token = "bad"
     /\ Answered(r, 401, "unauthorized")

\* r is past the gate of /apply with the create-new strategy
CreateNew(r) == PastGate(r) /\ inp[r].strategy = None
\* r is past the gate of /apply with the reuse strategy
Reuse(r) == PastGate(r) /\ inp[r].strategy = "reuse"

\* the branch existed before any request arrived
BranchPreexisted == \E n \in 1..Len(commits) :
                       commits[n].by = "init" /\ commits[n].parents # <<>>

\* both requests ran the create-new strategy to their end without any
\* external remote failure
BothCreateNewDone ==
  \A r \in Reqs : CreateNew(r) /\ Done(r) /\ faulted[r] = {}

ExactlyOne200OneBranchExists ==
  \E r \in Reqs : \E q \in Reqs \ {r} :
     /\ resp[r].status = 200
     /\ Answered(q, 422, "branch_exists")

\* C4 as claimed: two concurrent create-new /apply requests on the same
\* branch, each with an effective batch and no other remote failure, end
\* with exactly one 200 and exactly one 422 branch_exists.
C4_AlwaysOneWinner == BothCreateNewDone => ExactlyOne200OneBranchExists

\* C4 amended: when the branch does not exist before the two requests, they
\* end with exactly one 200 and exactly one 422 branch_exists, in every
\* interleaving; when it exists already, both end with 422 branch_exists.
C4_RaceOneWinner ==
  BothCreateNewDone
    => IF BranchPreexisted
         THEN \A r \in Reqs : Answered(r, 422, "branch_exists")
         ELSE ExactlyOne200OneBranchExists

\* C4's case: both requests read the base, then raced on createRef, and the
\* loser was answered 422 after the winner had created the ref
C4_Witness ==
  /\ BothCreateNewDone
  /\ ~BranchPreexisted
  /\ ExactlyOne200OneBranchExists
  /\ \E q \in Reqs : Answered(q, 422, "branch_exists") /\ loc[q].seen # 0

CommitterCalls == {"createTree", "createCommit", "updateRef",
                   "pulls.create", "pulls.update"}

\* C5: under create-new, when the branch ref exists as the request issues
\* createRef, the request is answered 422 branch_exists on that step, the
\* step leaves the ref, the trees, the commits and the pull requests as they
\* were, and the request has issued no createTree, createCommit, updateRef or
\* pull-request call.
C5_NoAdoption ==
  [][\A r \in Reqs :
       pc[r] = "newCreate" /\ refs[Branch] # 0 /\ calls'[r] # calls[r]
         => /\ pc'[r] = "done"
            /\ resp'[r].status = 422 /\ resp'[r].error = "branch_exists"
            /\ refs' = refs /\ trees' = trees /\ commits' = commits /\ prs' = prs
            /\ calls'[r] \cap CommitterCalls = {}]_vars

\* C5's case: a create-new request was answered 422 on a branch that existed
C5_Witness ==
  \E r \in Reqs :
     /\ CreateNew(r)
     /\ Answered(r, 422, "branch_exists")
     /\ loc[r].seen # 0
     /\ refs[Branch] = loc[r].seen

\* C6: under create-new, 422 branch_exists is answered only when the branch
\* ref exists at the createRef call; a createRef call that fails for another
\* reason is answered 500 apply_failed.
C6_BranchExistsOnlyOnCollision ==
  \A r \in Reqs :
     CreateNew(r) /\ Done(r)
       => /\ resp[r].error = "branch_exists" => loc[r].seen # 0
          /\ "newCreate" \in faulted[r] /\ loc[r].seen = 0
               => Answered(r, 500, "apply_failed")

ResolverSteps == {"lookup", "ensBase", "ensCreate"}

\* r's branch resolution under reuse has returned, none of its calls having
\* failed for an external reason
Resolved(r) ==
  /\ Reuse(r)
  /\ pc[r] \notin ResolverSteps
  /\ faulted[r] \cap ResolverSteps = {}

\* C7: under reuse, when the branch exists the resolution returns its
\* current head and issues no createRef; when it does not exist the
\* resolution creates the ref at the base branch's head and returns that
\* SHA.  Until the request moves the ref itself, the ref points at the SHA
\* returned.
C7_ReuseResolution ==
  \A r \in Reqs :
     Resolved(r)
       => /\ loc[r].seen # 0
               => loc[r].headSha = loc[r].seen /\ "createRef" \notin calls[r]
          /\ loc[r].seen = 0
               => loc[r].headSha = refs[BaseBranch] /\ "createRef" \in calls[r]
          /\ moved[r] = 0 => refs[Branch] = loc[r].headSha

\* C7's case: the branch existed with a head other than the base's, and the
\* request committed on that head
C7_Witness ==
  \E r \in Reqs :
     /\ Resolved(r)
     /\ loc[r].seen # 0 /\ loc[r].seen # refs[BaseBranch]
     /\ resp[r].status = 200
     /\ commits[resp[r].commit].parents = <<loc[r].seen>>

\* C7's other case: the branch did not exist and was created at the base's head
C7_WitnessCreated ==
  \E r \in Reqs :
     /\ Resolved(r)
     /\ loc[r].seen = 0
     /\ pc[r] = "getCommit"
     /\ refs[Branch] = refs[BaseBranch]

\* C8: under reuse, when the lookup of the branch's ref fails with an error
\* other than not-found, the request fails with apply_failed and never
\* issues createRef.
C8_LookupErrorPropagates ==
  \A r \in Reqs :
     Reuse(r) /\ "lookup" \in faulted[r]
       => /\ "createRef" \notin calls[r]
          /\ Done(r) => Answered(r, 500, "apply_failed")

\* the commits a request has created
CommitsBy(r) == {n \in 1..Len(commits) : commits[n].by = r}

\* every write edit of r's batch has its entry among r's tree entries
WritesEntered(r) ==
  \A k \in 1..Len(inp[r].edits) :
     inp[r].edits[k].op = "write"
       => \E j \in 1..Len(loc[r].treeEntries) :
             /\ loc[r].treeEntries[j].path = inp[r].edits[k].path
             /\ loc[r].treeEntries[j].content = inp[r].edits[k].content

\* commit n holds the whole batch of the request that created it: the loop
\* ran over every edit, the parent is the head resolved, and the tree is the
\* parent's tree with all the entries of the batch layered on it
Complete(n) ==
  LET r == commits[n].by
  IN /\ loc[r].i = Len(inp[r].edits) + 1
     /\ WritesEntered(r)
     /\ loc[r].treeEntries # <<>>
     /\ commits[n].parents = <<loc[r].headSha>>
     /\ trees[commits[n].tree]
          = Overlay(trees[commits[loc[r].headSha].tree], loc[r].treeEntries)

\* C9: a request answered 200 has created exactly one commit, the one it
\* reports, whose only parent is the head resolved and whose tree is layered
\* on the parent's tree, and has moved the ref exactly once, to that commit;
\* in every state the branch points at a commit that was there before the
\* requests, at the base's head, or at a commit holding the whole batch of
\* its request.
C9_OneCompleteCommit ==
  /\ [](\A r \in Reqs :
          /\ Cardinality(CommitsBy(r)) <= 1
          /\ moved[r] <= 1
          /\ IsApply(r) /\ resp[r].status = 200
               => /\ CommitsBy(r) = {resp[r].commit}
                  /\ Complete(resp[r].commit)
                  /\ moved[r] = 1)
  /\ [](refs[Branch] # 0
          => \/ commits[refs[Branch]].by = "init"
             \/ Complete(refs[Branch]))
  /\ [][\A r \in Reqs :
          moved'[r] # moved[r]
            => /\ refs'[Branch] = loc[r].newSha
               /\ CommitsBy(r) = {loc[r].newSha}
               /\ refs[Branch] # 0]_vars

\* C9's case: a batch of a write and an effective replace on two paths was
\* committed on an existing branch and answered 200
C9_Witness ==
  \E r \in Reqs :
     /\ IsApply(r) /\ resp[r].status = 200
     /\ Len(inp[r].edits) = 2
     /\ Len(loc[r].treeEntries) = 2
     /\ loc[r].treeEntries[1].path # loc[r].treeEntries[2].path
     /\ loc[r].headSha # refs[BaseBranch]
     /\ refs[Branch] = resp[r].commit

\* commitBatch's loop has evaluated every edit of r's batch
LoopOver(r) ==
  /\ IsApply(r)
  /\ Len(inp[r].edits) >= 1
  /\ loc[r].i = Len(inp[r].edits) + 1

\* C10: commitBatch fails with no_change exactly when its loop, having
\* evaluated every edit, has produced no tree entry; the request has then
\* issued no createTree, createCommit or updateRef call, the ref has not
\* been advanced, and /apply answers 400 no_change.
C10_NoChange ==
  \A r \in Reqs :
     /\ IsApply(r) /\ resp[r].error = "no_change"
          => /\ LoopOver(r) /\ loc[r].treeEntries = <<>>
             /\ Answered(r, 400, "no_change")
             /\ calls[r] \cap {"createTree", "createCommit", "updateRef"} = {}
             /\ moved[r] = 0
             /\ refs[Branch] = loc[r].headSha
     /\ LoopOver(r) /\ loc[r].treeEntries = <<>>
          => Answered(r, 400, "no_change")
     /\ "createTree" \in calls[r] => LoopOver(r) /\ loc[r].treeEntries # <<>>

\* C10's case: a batch of two replace edits, one whose search string is not
\* in the file and one whose file is missing, ends with no_change
C10_Witness ==
  \E r \in Reqs :
     /\ Answered(r, 400, "no_change")
     /\ Len(inp[r].edits) = 2
     /\ inp[r].edits[1] # inp[r].edits[2]
     /\ faulted[r] = {}
     /\ "getContent" \in calls[r]

\* the tree of the head that branch resolution returned to r
HeadTree(r) == trees[commits[loc[r].headSha].tree]

\* edit e cannot change tree t as C11 reads it: a replace whose search string
\* is not in its target file, or a create-mode write of a file t holds
InertOn(e, t) ==
  \/ /\ e.op = "replace"
     /\ FileAt(t, e.path) # Absent
     /\ IndexOf(FileAt(t, e.path), e.search, 1) = 0
  \/ /\ e.op = "write"
     /\ e.mode = "create"
     /\ e.path # NoPath
     /\ FileAt(t, e.path) # Absent

\* r's batch is made of such edits only, and no remote call of r failed
InertBatch(r) ==
  /\ IsApply(r)
  /\ loc[r].headSha # 0
  /\ faulted[r] = {}
  /\ \A k \in 1..Len(inp[r].edits) : InertOn(inp[r].edits[k], HeadTree(r))

\* C11: a batch in which every replace edit's search string is absent from
\* its target file and every write edit is a create-mode write of a file
\* that exists ends with no_change: the request creates no commit and does
\* not advance the ref.
C11_InertBatchNoChange ==
  \A r \in Reqs :
     InertBatch(r)
       => /\ CommitsBy(r) = {}
          /\ moved[r] = 0
          /\ Done(r) => Answered(r, 400, "no_change")

\* r1 applied a one-edit batch, a replace, and was answered 200; r2 then
\* sent the same batch for the same branch (reuse) and has been answered,
\* no call of its commitBatch having failed
ReplaceAppliedTwice ==
  /\ IsApply("r1") /\ resp["r1"].status = 200
  /\ Len(inp["r1"].edits) = 1 /\ inp["r1"].edits[1].op = "replace"
  /\ Reuse("r2") /\ Done("r2")
  /\ inp["r2"].edits = inp["r1"].edits
  /\ faulted["r2"] \cap (AllSteps \ PRSteps) = {}

\* the content r1's commit gave the file its edit names
AfterFirst == FileAt(trees[commits[resp["r1"].commit].tree], inp["r1"].edits[1].path)

\* C12 as claimed: whatever the replace edit and the file content, applying
\* the edit through /apply and applying it again on the same branch right
\* afterwards yields no_change the second time.
C12_ReplaceIdempotent ==
  ReplaceAppliedTwice => Answered("r2", 400, "no_change")

\* C12 amended: the second application yields no_change exactly when the
\* content the first application left no longer holds the search string;
\* when it still does, the second application commits again.
C12_SecondReplace ==
  ReplaceAppliedTwice
    => IF IndexOf(AfterFirst, inp["r1"].edits[1].search, 1) = 0
         THEN Answered("r2", 400, "no_change") /\ CommitsBy("r2") = {}
         ELSE resp["r2"].error # "no_change" /\ Cardinality(CommitsBy("r2")) = 1

\* C12's case: the first application replaced the only occurrence, and the
\* second one was answered no_change
C12_Witness ==
  /\ ReplaceAppliedTwice
  /\ AfterFirst = <<"b", "b">>
  /\ Answered("r2", 400, "no_change")

\* r1 submitted a batch of create-mode writes and was answered 200; r2 then
\* resubmitted the batch verbatim for the same branch with the reuse strategy
WriteSubmittedTwice ==
  /\ IsApply("r1") /\ resp["r1"].status = 200
  /\ \A k \in 1..Len(inp["r1"].edits) :
        inp["r1"].edits[k].op = "write" /\ inp["r1"].edits[k].mode = "create"
  /\ Reuse("r2")
  /\ inp["r2"].edits = inp["r1"].edits

\* C13: the second submission is accepted by branch resolution, which
\* returns the head the first one left, but it creates no second commit
\* and, no remote call of it failing, is answered no_change.
C13_ResubmitNoChange ==
  WriteSubmittedTwice
    => /\ pc["r2"] \notin ResolverSteps => loc["r2"].headSha = resp["r1"].commit
       /\ CommitsBy("r2") = {}
       /\ Done("r2") /\ faulted["r2"] = {} => Answered("r2", 400, "no_change")

\* r's batch is the single replace edit e with the all flag given, its target
\* file exists at the head resolved, and no remote call of r failed
FlaggedReplace(r) ==
  /\ IsApply(r)
  /\ Len(inp[r].edits) = 1
  /\ inp[r].edits[1].op = "replace"
  /\ inp[r].edits[1].all \in {"true", "false"}
  /\ faulted[r] = {}
  /\ loc[r].headSha # 0
  /\ FileAt(HeadTree(r), inp[r].edits[1].path) # Absent

\* what C14 asks the file to become
FlaggedResult(r) ==
  LET e == inp[r].edits[1]
      cur == FileAt(HeadTree(r), e.path)
  IN IF e.all = "true" THEN SplitJoin(cur, e.search, e.replace)
     ELSE JsReplace(cur, e.search, e.replace)

\* C14: a replace edit with the all flag set replaces every occurrence of
\* the search string, and with the flag false only the first one: the file
\* the request commits has that content.
C14_AllOccurrences ==
  \A r \in Reqs :
     FlaggedReplace(r) /\ LoopOver(r)
       => /\ loc[r].treeEntries # <<>>
               => loc[r].treeEntries[1].content = FlaggedResult(r)
          /\ resp[r].status = 200
               => FileAt(trees[commits[resp[r].commit].tree], inp[r].edits[1].path)
                    = FlaggedResult(r)

\* Scenario A: r's batch is one create-mode write in plain text, the branch
\* did not exist before, and no remote call of r failed
ScenarioA(r) ==
  /\ PastGate(r)
  /\ Len(inp[r].edits) = 1
  /\ inp[r].edits[1].op = "write"
  /\ inp[r].edits[1].mode = "create"
  /\ inp[r].edits[1].encoding = None
  /\ ~BranchPreexisted
  /\ faulted[r] = {}

\* C15: Scenario A is answered 200 with a commit SHA and the pull request
\* it opened; the branch ref then points at the reported commit, and that
\* commit holds the file with exactly the content sent.
C15_ScenarioA ==
  \A r \in Reqs :
     ScenarioA(r) /\ Done(r)
       => /\ resp[r].status = 200
          /\ resp[r].commit \in 1..Len(commits)
          /\ loc[r].prNumber \in 1..Len(prs)
          /\ prs[loc[r].prNumber].open
          /\ prs[loc[r].prNumber].head = Branch
          /\ refs[Branch] = resp[r].commit
          /\ FileAt(trees[commits[refs[Branch]].tree], inp[r].edits[1].path)
               = inp[r].edits[1].content

\* C15's case: a new file created on a fresh branch under create-new
C15_Witness ==
  \E r \in Reqs :
     /\ ScenarioA(r) /\ Done(r)
     /\ CreateNew(r)
     /\ inp[r].edits[1] = W_new
     /\ resp[r].status = 200
     /\ FileAt(MainTree, P_md) = Absent

\* the content of write edit e, decoded per its encoding
Decoded(e) ==
  IF e.encoding = "base64" THEN Base64Decode(e.content) ELSE e.content

\* C16: for every write edit, the tree entry's content is the edit's content
\* decoded per its encoding: once the loop has run over a batch, each of its
\* write edits has an entry for its path holding the decoded content.
C16_WriteDecoded ==
  \A r \in Reqs :
     LoopOver(r)
       => \A k \in 1..Len(inp[r].edits) :
            LET e == inp[r].edits[k]
            IN e.op = "write" /\ e.path # NoPath
                 => \E j \in 1..Len(loc[r].treeEntries) :
                       /\ loc[r].treeEntries[j].path = e.path
                       /\ loc[r].treeEntries[j].content = Decoded(e)

ListingFound(r) == IsApply(r) /\ "pulls.update" \in calls[r]

CosmeticCalls == {"addLabels", "requestReviewers"}

\* C18 as claimed: when the listing finds an open pull request, /apply
\* updates it in place and answers 200, and issues no pulls.create,
\* addLabels or requestReviewers call.
C18_FoundMeansUpdateOnly ==
  \A r \in Reqs :
     ListingFound(r)
       => /\ calls[r] \cap ({"pulls.create"} \cup CosmeticCalls) = {}
          /\ Done(r) => resp[r].status = 200 /\ r \in prs[loc[r].prNumber].updatedBy

\* What the code does about the found pull request: a listing made while a
\* pull request is open finds it; the request then issues no addLabels or
\* requestReviewers call, and when pulls.update succeeds it issues no
\* pulls.create and is answered 200, the pull request updated in place.
\* When pulls.update fails, the catch written for a failed listing issues
\* a pulls.create, which the remote refuses, and the request is answered
\* 500 apply_failed.
C18_AsCoded ==
  \A r \in Reqs :
     /\ pc[r] = "createPR"
          => ~\E n \in 1..Len(prs) :
                prs[n].open /\ prs[n].head = Branch /\ prs[n].base = BaseBranch
     /\ ListingFound(r)
          => /\ calls[r] \cap CosmeticCalls = {}
             /\ \A n \in 1..Len(prs) : prs[n].by # r
             /\ "updatePR" \notin faulted[r]
                  => /\ "pulls.create" \notin calls[r]
                     /\ Done(r)
                     /\ resp[r].status = 200
                     /\ prs[loc[r].prNumber].open
                     /\ r \in prs[loc[r].prNumber].updatedBy
             /\ "updatePR" \in faulted[r] /\ Done(r)
                  => "pulls.create" \in calls[r] /\ Answered(r, 500, "apply_failed")
     /\ calls[r] \cap CosmeticCalls # {} => \E n \in 1..Len(prs) : prs[n].by = r

\* the open pull request of the branch was found and updated
C18_FoundAndUpdated ==
  \E r \in Reqs :
     /\ ListingFound(r)
     /\ resp[r].status = 200
     /\ prs[loc[r].prNumber].by = "init"
     /\ r \in prs[loc[r].prNumber].updatedBy

\* r created a pull request and its addLabels or requestReviewers call failed
CosmeticFailed(r) ==
  /\ IsApply(r)
  /\ faulted[r] \cap CosmeticCalls # {}
  /\ \E n \in 1..Len(prs) : prs[n].by = r

\* C19: when the pull request was created and the addLabels or
\* requestReviewers call after it fails, no second pulls.create follows and
\* the request is still answered 200 for the pull request it created.
C19_CosmeticFailureStill200 ==
  \A r \in Reqs :
     CosmeticFailed(r) /\ Done(r)
       => /\ resp[r].status = 200
          /\ prs[loc[r].prNumber].by = r

\* the listing of open pull requests failed for r
ListingFailed(r) == IsApply(r) /\ "listPRs" \in faulted[r]

\* the open pull requests of the branch and base that r created
CreatedBy(r) == {n \in OpenPRs(Branch, BaseBranch) : prs[n].by = r}

\* C20: a failed listing is not fatal: the request goes on to pulls.create,
\* and when that creation succeeds it is answered 200 for the pull request
\* it created; it is answered 500 apply_failed only when the creation itself
\* failed or was refused because a pull request is already open.
C20_ListingFailureFallsBack ==
  \A r \in Reqs :
     ListingFailed(r)
       => /\ pc[r] \in {"createPR2", "done"}
          /\ calls[r] \cap ({"pulls.update"} \cup CosmeticCalls) = {}
          /\ Done(r)
               => /\ "pulls.create" \in calls[r]
                  /\ IF CreatedBy(r) # {}
                     THEN /\ resp[r].status = 200
                          /\ CreatedBy(r) = {loc[r].prNumber}
                     ELSE /\ Answered(r, 500, "apply_failed")
                          /\ \/ "createPR2" \in faulted[r]
                             \/ OpenPRs(Branch, BaseBranch) # {}

\* C20's case: the listing failed, the pull request was created, 200
C20_Witness ==
  \E r \in Reqs :
     /\ ListingFailed(r)
     /\ resp[r].status = 200
     /\ CreatedBy(r) = {loc[r].prNumber}

\* r has been sent a response
Replied(r) == resp[r].status # 0

\* C21: every /apply request is answered: one whose remote call never
\* returns has its JSON timeout response, or the timeout is still to fire.
C21_HungIsAnswered ==
  \A r \in Reqs :
     IsApply(r) /\ pc[r] = "hung" => Replied(r) \/ ENABLED Timeout(r)

\* What the timeout middleware of adapters/deploy.ts gives an app that
\* installs it: every request is eventually answered, a hung one with 504
\* timeout.
C21_GuardedAnswers ==
  workload = "guarded" =>
    \A r \in Reqs : (pc[r] = "idle") ~> (Replied(r) /\ (pc[r] = "hung" => resp[r].status = 504))

\* The timeout's answer undoes nothing: the remote is as the calls left it.
C21_NoRollback == [][\A r \in Reqs : Timeout(r) => UNCHANGED <<remote, calls>>]_vars

\* a request answered by the timeout after it had moved the branch
C21_TimeoutAfterMutation ==
  \E r \in Reqs :
     /\ pc[r] = "hung"
     /\ resp[r].status = 504
     /\ moved[r] = 1
     /\ refs[Branch] = loc[r].newSha

IsPlan(r) == Started(r) /\ inp[r].endpoint = "plan"

\* C22: a /plan request issues no remote call, the step that serves it
\* leaves refs, trees, commits and pull requests as they were, and the plan
\* it returns has no edits, whatever the body held.
C22_PlanNonMutating ==
  /\ [](\A r \in Reqs :
         IsPlan(r)
           => /\ Done(r)
              /\ calls[r] = {}
              /\ moved[r] = 0
              /\ resp[r].status \in {200, 400, 401}
              /\ resp[r].status = 200 => resp[r].plan.edits = <<>>)
  /\ [][\A r \in Reqs :
          pc[r] = "idle" /\ inp'[r].endpoint = "plan" => UNCHANGED remote]_vars

\* C22's case: a plan returned for a body that carried an edit
C22_Witness ==
  \E r \in Reqs :
     /\ IsPlan(r)
     /\ resp[r].status = 200
     /\ inp[r].edits # <<>>
     /\ resp[r].plan.edits = <<>>

\* a replace edit whose path is no file of tree t: absent, or a directory
SkippedOn(e, t) == e.op = "replace" /\ TipContent(t, e.path) \in {Absent, Dir}

\* the tree entries a batch yields when every fetch is served from tree t
RECURSIVE EntriesOn(_, _)
EntriesOn(edits, t) ==
  IF edits = <<>> THEN <<>>
  ELSE LET e == Head(edits)
       IN (IF e.op = "write" THEN <<[path |-> e.path, content |-> e.content]>>
           ELSE ReplaceEntries(<<>>, e, TipContent(t, e.path)))
          \o EntriesOn(Tail(edits), t)

\* the batch without its replace edits that have no file to work on
RestOf(edits, t) == SelectSeq(edits, LAMBDA e : ~SkippedOn(e, t))

\* r's loop is over, one of its replace edits found no file, no fetch failed
LoopOverWithSkip(r) ==
  /\ LoopOver(r)
  /\ "getContent" \notin faulted[r]
  /\ \E k \in 1..Len(inp[r].edits) : SkippedOn(inp[r].edits[k], HeadTree(r))

\* C23: a replace edit whose path is absent or a directory contributes no
\* tree entry and does not fail the batch: the loop ends with exactly the
\* entries of the remaining edits, and these are committed (no_change if
\* there are none; createTree's own refusal of an entry without a path
\* apart).
C23_MissingTargetSkipped ==
  \A r \in Reqs :
     LoopOverWithSkip(r)
       => LET rest == EntriesOn(RestOf(inp[r].edits, HeadTree(r)), HeadTree(r))
          IN /\ loc[r].treeEntries = rest
             /\ Done(r) /\ faulted[r] = {}
                  => IF rest = <<>> THEN Answered(r, 400, "no_change")
                     ELSE IF \E k \in 1..Len(rest) : rest[k].path = NoPath
                       THEN Answered(r, 500, "apply_failed")
                     ELSE /\ resp[r].status = 200
                          /\ refs[Branch] = resp[r].commit
                          /\ trees[commits[resp[r].commit].tree]
                               = Overlay(HeadTree(r), rest)

\* C23's case: a replace of a directory, then a write; the write is committed
C23_Witness ==
  \E r \in Reqs :
     /\ LoopOverWithSkip(r)
     /\ inp[r].edits[1].op = "replace"
     /\ TipContent(HeadTree(r), inp[r].edits[1].path) = Dir
     /\ resp[r].status = 200
     /\ Len(loc[r].treeEntries) = 1
     /\ FileAt(trees[commits[resp[r].commit].tree], inp[r].edits[2].path)
          = inp[r].edits[2].content

\* a fetch of r's commitBatch failed, and every replace edit of the batch
\* has a file to work on and would change it: the failure was not a
\* not-found, and the edit it lost was no no-op
FetchFailed(r) ==
  /\ IsApply(r)
  /\ "getContent" \in faulted[r]
  /\ \A k \in 1..Len(inp[r].edits) :
        /\ ~SkippedOn(inp[r].edits[k], HeadTree(r))
        /\ ~InertOn(inp[r].edits[k], HeadTree(r))

\* C24: a content fetch of commitBatch that fails for a reason other than
\* not-found aborts the batch: the ref is not advanced and /apply does not
\* answer 200 (the claim asks for 500 apply_failed, and for no tree and no
\* commit).
C24_FetchFailureAborts ==
  \A r \in Reqs :
     FetchFailed(r) => moved[r] = 0 /\ (Done(r) => resp[r].status # 200)

\* What the code keeps of C24: a failure of getCommit, createTree,
\* createCommit or updateRef ends the request with 500 apply_failed, the ref
\* not advanced and no pull request touched.
C24_OtherFailuresAbort ==
  \A r \in Reqs :
     IsApply(r)
     /\ faulted[r] \cap {"getCommit", "createTree", "createCommit", "updateRef"} # {}
       => /\ Answered(r, 500, "apply_failed")
          /\ moved[r] = 0
          /\ calls[r] \cap {"pulls.list", "pulls.create", "pulls.update"} = {}

\* the ref update of r failed
UpdateRefFailed(r) == IsApply(r) /\ "updateRef" \in faulted[r]

\* C25: when updateRef fails after the commit object was created, the
\* branch still points at the head it had before commitBatch, the new commit
\* exists and no ref points at it, the request has touched no pull request
\* and issued no further call, and it is answered 500 apply_failed.
C25_OrphanCommit ==
  \A r \in Reqs :
     UpdateRefFailed(r)
       => /\ Answered(r, 500, "apply_failed")
          /\ refs[Branch] = loc[r].headSha
          /\ moved[r] = 0
          /\ CommitsBy(r) = {loc[r].newSha}
          /\ commits[loc[r].newSha].parents = <<loc[r].headSha>>
          /\ \A b \in DOMAIN refs : refs[b] # loc[r].newSha
          /\ calls[r] \cap {"pulls.list", "pulls.create", "pulls.update",
                            "addLabels", "requestReviewers"} = {}
          /\ \A n \in 1..Len(prs) : prs[n].by # r /\ r \notin prs[n].updatedBy

\* C25's case: the ref update failed with the commit created, for a branch
\* this request had created
C25_Witness ==
  \E r \in Reqs :
     /\ UpdateRefFailed(r)
     /\ CreateNew(r)
     /\ Done(r)
     /\ loc[r].newSha \in 1..Len(commits)
     /\ refs[Branch] = refs[BaseBranch]

\* the content of the last of the entries that name path
LastFor(entries, path) ==
  LET k == CHOOSE k \in 1..Len(entries) :
              /\ entries[k].path = path
              /\ \A j \in (k + 1)..Len(entries) : entries[j].path # path
  IN entries[k].content

\* C26: the tree entries of a batch are emitted in edit order, and in the
\* commit a 200 reports each path the batch touched holds the content of
\* the last entry for it (createTree on the remote layers the entries in
\* order).
C26_LastWriteWins ==
  \A r \in Reqs :
     IsApply(r) /\ resp[r].status = 200
       => /\ "getContent" \notin faulted[r]
               => loc[r].treeEntries = EntriesOn(inp[r].edits, HeadTree(r))
          /\ \A k \in 1..Len(loc[r].treeEntries) :
                FileAt(trees[commits[resp[r].commit].tree], loc[r].treeEntries[k].path)
                  = LastFor(loc[r].treeEntries, loc[r].treeEntries[k].path)

\* C26's case: two effective edits of one path with different results
C26_Witness ==
  \E r \in Reqs :
     /\ IsApply(r) /\ resp[r].status = 200
     /\ Len(loc[r].treeEntries) = 2
     /\ loc[r].treeEntries[1].path = loc[r].treeEntries[2].path
     /\ loc[r].treeEntries[1].content # loc[r].treeEntries[2].content
     /\ FileAt(trees[commits[resp[r].commit].tree], loc[r].treeEntries[2].path)
          = loc[r].treeEntries[2].content

\* r's batch is a write of a path followed by a replace of the same path,
\* its loop is over and no fetch failed
WriteThenReplace(r) ==
  /\ LoopOver(r)
  /\ "getContent" \notin faulted[r]
  /\ Len(inp[r].edits) = 2
  /\ inp[r].edits[1].op = "write"
  /\ inp[r].edits[2].op = "replace"
  /\ inp[r].edits[2].path = inp[r].edits[1].path

\* C27: in a batch [Write(P, C), Replace(P, s, r)] the replace is evaluated
\* on the content P had on the branch before the batch, whatever C is: its
\* entry, if any, is that content with s replaced, and follows the write's.
C27_ReplaceReadsTip ==
  \A r \in Reqs :
     WriteThenReplace(r)
       => LET w == inp[r].edits[1]
              e == inp[r].edits[2]
              before == TipContent(HeadTree(r), e.path)
          IN loc[r].treeEntries
               = <<[path |-> w.path, content |-> w.content]>>
                 \o (IF before \in {Absent, Dir}
                        \/ JsReplace(before, e.search, e.replace) = before
                      THEN <<>>
                      ELSE <<[path |-> e.path,
                              content |-> JsReplace(before, e.search, e.replace)]>>)

\* C27's case: the write's content does not hold the search string, the
\* branch's file does; the commit holds the branch's file with s replaced
C27_Witness ==
  \E r \in Reqs :
     /\ WriteThenReplace(r)
     /\ resp[r].status = 200
     /\ IndexOf(inp[r].edits[1].content, inp[r].edits[2].search, 1) = 0
     /\ Len(loc[r].treeEntries) = 2
     /\ FileAt(trees[commits[resp[r].commit].tree], inp[r].edits[2].path)
          = JsReplace(FileAt(HeadTree(r), inp[r].edits[2].path),
                      inp[r].edits[2].search, inp[r].edits[2].replace)

\* a glob as C28 reads it: ** matches any characters, * any run of
\* characters other than /, every other character itself
RECURSIVE GlobMatch(_, _)
GlobMatch(g, str) ==
  IF g = <<>> THEN str = <<>>
  ELSE IF Len(g) >= 2 /\ g[1] = "*" /\ g[2] = "*"
    THEN \E k \in 0..Len(str) :
            GlobMatch(SubSeq(g, 3, Len(g)), SubSeq(str, k + 1, Len(str)))
  ELSE IF g[1] = "*"
    THEN \E k \in 0..Len(str) :
            /\ \A j \in 1..k : str[j] # "/"
            /\ GlobMatch(Tail(g), SubSeq(str, k + 1, Len(str)))
  ELSE str # <<>> /\ str[1] = g[1] /\ GlobMatch(Tail(g), Tail(str))

\* the normalized path matches in full at least one configured pattern
MatchesAPattern(p) ==
  \E i \in 1..Len(SAFE_WRITE_GLOBS) : GlobMatch(SAFE_WRITE_GLOBS[i], norm(p))

\* isPathAllowed was applied to the path drawn and has returned
Returned == probe.fn = "isPathAllowed" /\ probe.done

\* C28: isPathAllowed(p) is true exactly when the normalized path matches
\* in full at least one configured pattern, ** matching any characters, *
\* any run of non-/ characters and every other character itself.
C28_ExactlyThePatterns == Returned => (probe.out = MatchesAPattern(probe.arg))

\* What the code keeps of C28: isPathAllowed returns a boolean for every
\* path, and for a path that holds no line terminator it is true exactly
\* when the normalized path matches a pattern.
C28_AsCoded ==
  /\ Returned => probe.out \in BOOLEAN
  /\ Returned /\ (\A k \in 1..Len(probe.arg) : probe.arg[k] \notin LineTerminators)
       => (probe.out = MatchesAPattern(probe.arg))

\* r was served by the schema-validated handler and answered 403 by its gate
LegacyGateRejected(r) ==
  /\ inp[r].endpoint = "legacy"
  /\ resp[r].status = 403
  /\ resp[r].error \in {"path_not_allowed", "workflow_edit_blocked"}

\* C29: when the schema-validated /apply answers 403 path_not_allowed or
\* workflow_edit_blocked, it has issued no mutating call: the branch has not
\* been created and no file of the batch has been committed.
C29_LegacyGateFirst ==
  \A r \in Reqs :
     LegacyGateRejected(r)
       => /\ NoMutation(r)
          /\ refs[Branch] = 0
          /\ CommitsBy(r) = {}


\* isAllowed was applied to the arguments drawn and has returned
PolicyReturned == probe.fn = "isAllowed" /\ probe.done

\* the rule isAllowed consults: the repository's, else the default one
RuleOf(a) ==
  IF a.repo \in DOMAIN a.policy.repos
  THEN a.policy.repos[a.repo]
  ELSE a.policy.repos["default"]

\* the action qualified by the environment of the call
EnvKey(a) == IF a.env = "" THEN a.action ELSE a.action \o <<":", a.env>>

\* the tool has a rule, no deny entry and some allow entry equal the action
\* or the key
ListedAndNotDenied(a, key) ==
  /\ a.tool \in DOMAIN RuleOf(a).tools
  /\ ~\E d \in RuleOf(a).tools[a.tool].deny : d = a.action \/ d = key
  /\ \E e \in RuleOf(a).tools[a.tool].allow : e = a.action \/ e = key

\* C30: isAllowed returns true exactly when the tool has a rule, no deny
\* entry equals the action or its environment-qualified key, and some allow
\* entry equals the action or that key; a deny entry overrides a matching
\* allow entry and a tool or action not listed is denied.
C30_AllowDenyLookup ==
  PolicyReturned
    => (probe.out = ListedAndNotDenied(probe.arg, EnvKey(probe.arg)))

\* What the code keeps of C30: the same lookup with the key qualified only
\* for an action that includes sql_migrate; a denied action is refused
\* whatever the allow list holds, and an unlisted tool is refused.
C30_AsCoded ==
  PolicyReturned
    => /\ probe.out
            = ListedAndNotDenied(probe.arg,
                                 PolicyKey(probe.arg.action, probe.arg.env))
       /\ probe.arg.tool \notin DOMAIN RuleOf(probe.arg).tools => ~probe.out
       /\ (/\ probe.arg.tool \in DOMAIN RuleOf(probe.arg).tools
           /\ \E d \in RuleOf(probe.arg).tools[probe.arg.tool].deny :
                 d = probe.arg.action) => ~probe.out


\* r is a /run request past the parse of its body
IsRun(r) == inp[r].endpoint = "run" /\ inp[r].steps # <<>>

\* the policy lets step k of r's plan through
StepAllowed(r, k) ==
  isAllowed(loadPolicy, "default", inp[r].steps[k].tool,
            inp[r].steps[k].action, inp[r].env)

\* the steps of r dispatched so far are steps 1..n of the plan in that
\* order, each let through by the policy, all but possibly the last have
\* returned, and the effects present are exactly those of the returned ones
RunInOrder(r) ==
  LET res == loc[r].results
      n == Len(res)
  IN /\ n <= Len(inp[r].steps)
     /\ \A j \in 1..n : res[j].at = j /\ StepAllowed(r, j)
     /\ \A j \in 1..(n - 1) : res[j].ok
     /\ {c.at : c \in calls[r]} = {j \in 1..n : res[j].ok}
     /\ pc[r] = "runDispatch" => StepAllowed(r, loc[r].i) /\ loc[r].i = n + 1

\* the answer of r names the step the run stopped at
RunStopped(r) ==
  LET res == loc[r].results
      n == Len(res)
  IN /\ resp[r].status = 403
          => /\ n < Len(inp[r].steps)
             /\ ~StepAllowed(r, n + 1)
             /\ \A j \in 1..n : res[j].ok
     /\ resp[r].status = 500 => n >= 1 /\ ~res[n].ok
     /\ resp[r].status = 200
          => n = Len(inp[r].steps) /\ \A j \in 1..n : res[j].ok

\* C31: /run takes the steps in list order; a step is dispatched only after
\* its own policy check passed; at the first step the policy blocks (403
\* policy_block) or whose dispatch throws (500 step_failed) no later step is
\* dispatched; the effects of the steps already executed stay.
C31_RunInOrder ==
  /\ [](\A r \in Reqs : IsRun(r) => RunInOrder(r) /\ RunStopped(r))
  /\ [][\A r \in Reqs : calls[r] \subseteq calls'[r]]_vars

\* a run was blocked at a later step after an earlier step had taken effect
C31_Witness ==
  \E r \in Reqs :
     /\ IsRun(r)
     /\ Answered(r, 403, "policy_block")
     /\ calls[r] # {}
     /\ Len(loc[r].results) < Len(inp[r].steps)


\* r has passed its tree entries to tree creation
TreeRequested(r) == IsApply(r) /\ "createTree" \in calls[r]

\* the path went through the gate of r: the allowlist let it pass and, for
\* a workflow path, r carried the server's approval secret
Gated(r, path) ==
  /\ path # NoPath
  /\ isPathAllowed(path)
  /\ isWorkflowPath(path) => Truthy(inp[r].hdr) /\ inp[r].hdr = wfKey

\* C32: every path of every tree entry /apply passes to tree creation has
\* passed isPathAllowed in the same request and, when it is a workflow
\* path, the request carried the approval credential equal to the secret.
C32_TreePathsGated ==
  \A r \in Reqs :
     TreeRequested(r)
       => \A k \in 1..Len(loc[r].treeEntries) :
             Gated(r, loc[r].treeEntries[k].path)

\* What the code keeps of C32: every tree entry that has a path had that
\* path gated; an entry of an edit that gave only `from` has none.
C32_AsCoded ==
  \A r \in Reqs :
     TreeRequested(r)
       => \A k \in 1..Len(loc[r].treeEntries) :
             \/ Gated(r, loc[r].treeEntries[k].path)
             \/ loc[r].treeEntries[k].path = NoPath


\* the segments of a path between its / characters
RECURSIVE Segments(_, _, _)
Segments(p, cur, acc) ==
  IF p = <<>> THEN Append(acc, cur)
  ELSE IF Head(p) = "/" THEN Segments(Tail(p), <<>>, Append(acc, cur))
  ELSE Segments(Tail(p), Append(cur, Head(p)), acc)

\* the segments left once '.' and '..' are resolved
RECURSIVE ResolveDots(_, _)
ResolveDots(segs, acc) ==
  IF segs = <<>> THEN acc
  ELSE IF Head(segs) \in {<<>>, <<".">>} THEN ResolveDots(Tail(segs), acc)
  ELSE IF Head(segs) = <<".", ".">>
    THEN ResolveDots(Tail(segs),
                     IF acc = <<>> THEN acc ELSE SubSeq(acc, 1, Len(acc) - 1))
  ELSE ResolveDots(Tail(segs), Append(acc, Head(segs)))

\* the path, once resolved, names a location under .github/workflows/
UnderWorkflows(p) ==
  LET segs == ResolveDots(Segments(norm(p), <<>>, <<>>), <<>>)
  IN /\ Len(segs) >= 3
     /\ segs[1] = <<".","g","i","t","h","u","b">>
     /\ segs[2] = <<"w","o","r","k","f","l","o","w","s">>

\* C33: no /apply request lacking the matching approval header gets past
\* the gate with a path that, once its '.' and '..' segments are resolved,
\* names a location under .github/workflows/.
C33_NoWorkflowByDetour ==
  \A r \in Reqs :
     PastGate(r) /\ HeaderMismatch(r)
       => \A k \in 1..Len(inp[r].edits) :
             ~UnderWorkflows(GatePath(inp[r].edits[k]))

\* What the code keeps of C33: without the matching header no path that
\* begins, after normalization, with .github/workflows/ gets past the gate.
C33_AsCoded ==
  \A r \in Reqs :
     PastGate(r) /\ HeaderMismatch(r)
       => \A k \in 1..Len(inp[r].edits) :
             ~isWorkflowPath(GatePath(inp[r].edits[k]))


\* commit c is the commit at sha or one of its ancestors
RECURSIVE ReachableFrom(_, _)
ReachableFrom(sha, c) ==
  /\ sha # 0
  /\ \/ sha = c
     \/ \E k \in 1..Len(commits[sha].parents) :
           ReachableFrom(commits[sha].parents[k], c)

\* both requests ran the reuse strategy on the branch that existed and both
\* were answered 200
BothReused200 ==
  /\ BranchPreexisted
  /\ \A r \in Reqs : Reuse(r) /\ Done(r) /\ resp[r].status = 200

\* C34: when two concurrent reuse requests on the same existing branch both
\* return 200, both reported commits are reachable from the branch head
\* once both have finished.
C34_NoCommitDropped ==
  BothReused200
    => \A r \in Reqs : ReachableFrom(refs[Branch], resp[r].commit)

\* What the code keeps of C34: the commit of the request whose updateRef
\* came last is the branch head, and the other is reachable when the later
\* request resolved the branch after the earlier one moved it.
C34_AsCoded ==
  BothReused200
    => \E r \in Reqs :
          /\ refs[Branch] = resp[r].commit
          /\ \A q \in Reqs \ {r} :
                loc[r].headSha = resp[q].commit
                  => ReachableFrom(refs[Branch], resp[q].commit)


\* both requests ran the reuse strategy on a branch that did not exist and
\* both are through with their branch resolution
BothResolvedAbsent ==
  /\ ~BranchPreexisted
  /\ \A r \in Reqs : Reuse(r) /\ pc[r] \notin ResolverSteps

\* C35: under reuse, two concurrent requests naming the same branch that
\* does not exist yet both obtain a head SHA from branch resolution in
\* every interleaving: the one that loses the ref-creation race adopts the
\* branch.
C35_LoserAdopts ==
  BothResolvedAbsent => \A r \in Reqs : loc[r].headSha # 0

\* What the code keeps of C35: a request that found the branch missing and
\* whose createRef was refused is answered 500 apply_failed with no head
\* SHA; every other request has one.
C35_AsCoded ==
  BothResolvedAbsent
    => \A r \in Reqs :
          \/ loc[r].headSha # 0
          \/ /\ loc[r].seen = 0
             /\ "createRef" \in calls[r]
             /\ Answered(r, 500, "apply_failed")
             /\ \E q \in Reqs \ {r} : loc[q].headSha # 0


\* C36: an /apply request that ends with 400 no_change leaves the remote
\* repository as it was before the request, under both branch strategies:
\* it has created no branch ref, tree, commit or pull request.
C36_NoChangeLeavesNothing ==
  \A r \in Reqs :
     IsApply(r) /\ Answered(r, 400, "no_change")
       => /\ NoMutation(r)
          /\ refs[Branch] # 0 => BranchPreexisted

\* What the code keeps of C36: a request answered no_change has created no
\* tree, commit or pull request and has not moved a ref; the one mutating
\* call it may have issued is the createRef of its branch resolution.
C36_AsCoded ==
  \A r \in Reqs :
     IsApply(r) /\ Answered(r, 400, "no_change")
       => /\ calls[r] \cap MutatingCalls \subseteq {"createRef"}
          /\ CommitsBy(r) = {}
          /\ moved[r] = 0
          /\ refs[Branch] # 0 /\ ~BranchPreexisted => refs[Branch] = refs[BaseBranch]


\* the file at path in commit c is what a replace edit e makes of the file
\* at path in c's parent: the parent's content with the search string
\* replaced, or the parent's content when the edit was skipped
FromParent(c, e) ==
  LET parent == trees[commits[commits[c].parents[1]].tree]
      before == FileAt(parent, e.path)
      after == FileAt(trees[commits[c].tree], e.path)
  IN \/ after = before
     \/ before # Absent /\ after = JsReplace(before, e.search, e.replace)

\* C37: in every commit commitBatch creates, the content a Replace edit was
\* computed from is the content of that path in the tree of the commit's
\* parent, also when another request advances the branch between branch
\* resolution and the content fetch.
C37_ReplaceFromParent ==
  \A r \in Reqs : \A c \in CommitsBy(r) :
     \A k \in 1..Len(inp[r].edits) :
        inp[r].edits[k].op = "replace" => FromParent(c, inp[r].edits[k])

\* What the code keeps of C37: the replace is computed from the parent's
\* content when no other request moved the branch between r's branch
\* resolution and r's commit.
C37_AsCoded ==
  \A r \in Reqs : \A c \in CommitsBy(r) :
     \A k \in 1..Len(inp[r].edits) :
        /\ inp[r].edits[k].op = "replace"
        /\ \A q \in Reqs \ {r} : moved[q] = 0
        => FromParent(c, inp[r].edits[k])


\* r holds, at position k, an edit on a workflow path that the gate's
\* workflow check is reached for: the path is on the allowlist and every
\* edit before it passes the gate
WorkflowCheckReached(r, k) ==
  /\ IsApply(r)
  /\ k \in 1..Len(inp[r].edits)
  /\ GatePath(inp[r].edits[k]) # NoPath
  /\ isWorkflowPath(GatePath(inp[r].edits[k]))
  /\ isPathAllowed(GatePath(inp[r].edits[k]))
  /\ \A j \in 1..(k - 1) : PassesGate(r, inp[r].edits[j])

PermittedSomewhere(tool, action) ==
  \E env \in {"staging", "prod"} :
     isAllowed(loadPolicy, "default", tool, action, env)

\* the step the run of r was blocked at by the policy
BlockedStep(r) == inp[r].steps[Len(loc[r].results) + 1]

\* C39: every tool.action pair the dispatch helper can execute is permitted
\* by the default policy for at least one environment, so that a /run step
\* naming an implemented action is never blocked in both environments.
C39_ImplementedIsReachable ==
  \A r \in Reqs :
     /\ IsRun(r)
     /\ Answered(r, 403, "policy_block")
     /\ <<BlockedStep(r).tool, BlockedStep(r).action>> \in Implemented
     => PermittedSomewhere(BlockedStep(r).tool, BlockedStep(r).action)

\* What the code keeps of C39: every implemented pair but
\* github.create_branch and stripe.read_connect_account is permitted by the
\* default policy for staging or for prod; those two are permitted for
\* neither.
C39_AsCoded ==
  \A p \in Implemented :
     PermittedSomewhere(p[1], p[2])
       <=> p \notin {<<"github", <<"create_branch">>>>,
                     <<"stripe", <<"read_connect_account">>>>}

=============================================================================
